---- MODULE Spec2Model ----
(***************************************************************************)
(* Verification model of strawboat: the page writer (encode_chunk and the  *)
(* page serializer), the page reader (NativeReader and the per-type page   *)
(* decoders), the run-length decoders and codec selection.                 *)
(***************************************************************************)
EXTENDS Integers, Sequences, FiniteSets, TLC

VARIABLES
    opts,       \* WriteOptions of the NativeWriter
    chunk,      \* the Chunk handed to encode_chunk: a sequence of columns
    writer,     \* NativeWriter: byte sink, its offset, metas, loop position
    rd,         \* page-iterator read back of one written column
    bin,        \* a byte-slice column: its pages, batch read and page iterator
    dec,        \* a run-length page payload and its decode
    nr,         \* a NativeReader over a stream of pages
    sel,        \* codec selection for one page
    tg,         \* a codec tag byte and its decoding for a leaf type
    cm,         \* a ColumnMeta and the metas sliced from it
    vl,         \* the validity streams of a leaf's pages, written and read
    duo,        \* two NativeReaders over two columns of one stream
    bp,         \* a Bitpacking page: array, payload, decoded output
    de,         \* a dictionary encoder and its index stream
    bd,         \* a byte-slice Dict page decoded into the caller's buffers
    dl,         \* a Delta page: array, payload, decoded output
    st,         \* an integer array and the statistics gen_stats takes of it
    nv,         \* the level streams of a nested page and the state read from them
    fx          \* a raw-mode byte-slice page appended to the caller's offsets

vars == <<opts, chunk, writer, rd, bin, dec, nr, sel, tg, cm, vl, duo, bp, de, bd,
          dl, st, nv, fx>>

\* Value of the variables that a specification does not use
Unused == "unused"

(***************************************************************************)
(* Bounds                                                                  *)
(***************************************************************************)
MaxRows == 3        \* rows per chunk
MaxCols == 2        \* leaf columns per chunk
MaxVal  == 1        \* values are drawn from 0..MaxVal
MaxItem == 2        \* bytes per item of a byte-slice column
MaxRuns == 2        \* runs in a run-length payload
MaxRun  == 3        \* length of one run
MaxPages == 3       \* pages of a NativeReader
MaxPageLen == 2     \* bytes of one such page
MaxRatio == 2       \* compress ratios are drawn from 0..MaxRatio
MaxLeafPages == 2   \* pages of a leaf whose validity is read back
MaxDuoCalls == 2    \* calls made on each of two readers side by side
MaxBlocks == 2      \* bit-packed blocks of one page
MaxBpVal == 3       \* largest value of a bit-packed array
MaxPushes == 4      \* calls made on a dictionary encoder
MaxUnique == 3      \* entries of a dictionary built with its indices
MaxPairs == 3  \* (rep, def) pairs of a nested page

(***************************************************************************)
(* Generic helpers                                                         *)
(***************************************************************************)
Min(a, b) == IF a < b THEN a ELSE b

RECURSIVE SumSeq(_)
SumSeq(s) == IF s = <<>> THEN 0 ELSE Head(s) + SumSeq(Tail(s))

RECURSIVE Flatten(_)
Flatten(ss) == IF ss = <<>> THEN <<>> ELSE Head(ss) \o Flatten(Tail(ss))

CeilDiv(a, b) == (a + b - 1) \div b

\* u32::to_le_bytes
U32le(x) == << x % 256, (x \div 256) % 256, (x \div 65536) % 256, (x \div 16777216) % 256 >>

\* u32::from_le_bytes.  Values of 2^31 and more are far beyond every length
\* and value of the model; they are all read as 2^31 - 1.
FromU32le(b) ==
    IF b[4] >= 128 THEN 2147483647
    ELSE b[1] + 256 * b[2] + 65536 * b[3] + 16777216 * b[4]

(***************************************************************************)
(* Codec tags                                                              *)
(***************************************************************************)
\* impl From<Compression> for u8
CodecOf(c) ==
    CASE c = "None" -> 0 [] c = "LZ4" -> 1 [] c = "ZSTD" -> 2 [] c = "SNAPPY" -> 3
      [] c = "RLE" -> 10 [] c = "Dict" -> 11

from_codec_General(t) ==
    CASE t = 0 -> "None" [] t = 1 -> "LZ4" [] t = 2 -> "ZSTD" [] t = 3 -> "SNAPPY"
      [] OTHER -> "Err"

\* Compression::from_codec; "Err" stands for Error::OutOfSpec
from_codec(t) ==
    CASE t = 0 -> "None" [] t = 1 -> "LZ4" [] t = 2 -> "ZSTD" [] t = 3 -> "SNAPPY"
      [] t = 10 -> "RLE" [] t = 11 -> "Dict"
      [] OTHER -> "Err"

\* Compression::raw_mode
raw_mode(c) == c \in {"None", "LZ4", "ZSTD", "SNAPPY"}

\* The general codecs are external libraries.  Their contract is modelled as
\* a frame: a codec-specific marker byte followed by the input.  A block
\* decompresses only with the codec that produced it and only into a
\* destination of the original size.
FrameMark(c) == 200 + CodecOf(c)
compress(c, bytes) == <<FrameMark(c)>> \o bytes
decompress_ok(c, input, out_len) ==
    /\ Len(input) >= 1
    /\ input[1] = FrameMark(c)
    /\ Len(input) - 1 = out_len

(***************************************************************************)
(* Page serializer (write/serialize.rs)                                    *)
(***************************************************************************)
\* Bits of a bitmap packed least-significant-bit first, one byte per 8 bits.
RECURSIVE BitsToByte(_)
BitsToByte(bits) ==
    IF bits = <<>> THEN 0
    ELSE (IF Head(bits) THEN 1 ELSE 0) + 2 * BitsToByte(Tail(bits))

RECURSIVE BitsToBytes(_)
BitsToBytes(bits) ==
    IF bits = <<>> THEN <<>>
    ELSE <<BitsToByte(SubSeq(bits, 1, Min(8, Len(bits))))>>
         \o BitsToBytes(SubSeq(bits, Min(8, Len(bits)) + 1, Len(bits)))

\* arrow2 write_def_levels(.., Version::V2): nothing for a required field;
\* for an optional field one bit-packed hybrid run (header = groups*2+1)
\* holding the validity bits, all set when the array has no validity.
write_def_levels(is_optional, validity, length) ==
    IF ~is_optional THEN <<>>
    ELSE <<2 * CeilDiv(length, 8) + 1>>
         \o BitsToBytes(IF validity = <<>> THEN [i \in 1..length |-> TRUE] ELSE validity)

\* write_validity: length, rep_levels_len (= 0), def_levels_len, def levels
write_validity(is_optional, validity, length) ==
    LET scratch == write_def_levels(is_optional, validity, length)
    IN  U32le(length) \o U32le(0) \o U32le(Len(scratch)) \o scratch

\* The value buffer of a PrimitiveArray<i32>: 4 little-endian bytes a value
I32Bytes(values) == Flatten([i \in 1..Len(values) |-> U32le(values[i])])

\* write_buffer::<u8>: codec tag, compressed size, uncompressed size, payload
write_buffer_u8(bytes, compression) ==
    LET codec == <<CodecOf(compression)>>
    IN  IF compression = "None"
        THEN codec \o U32le(Len(bytes)) \o U32le(Len(bytes)) \o bytes
        ELSE LET z == compress(compression, bytes)
             IN  codec \o U32le(Len(z)) \o U32le(Len(bytes)) \o z

\* write_buffer::<i32>: bytemuck::cast_slice, then as above
write_buffer(values, compression) == write_buffer_u8(I32Bytes(values), compression)

\* write_simple on a PrimitiveArray<i32> page
write_simple(page, compression) ==
    write_validity(page.is_optional, page.validity, Len(page.values))
    \o write_buffer(page.values, compression)

\* slice_parquet_array on a leaf without nesting: rows [offset, offset+length)
slice_parquet_array(col, offset, length) ==
    [ is_optional |-> col.is_optional,
      values      |-> SubSeq(col.values, offset + 1, offset + length),
      validity    |-> IF col.validity = <<>> THEN <<>>
                      ELSE SubSeq(col.validity, offset + 1, offset + length) ]

(***************************************************************************)
(* Inputs of the writer                                                    *)
(***************************************************************************)
Compressions == {"None", "LZ4", "ZSTD", "SNAPPY"}

\* max_page_size: Option<usize>; NoPageSize stands for None
NoPageSize == -1
PageSizes == {NoPageSize} \cup (0..(MaxRows + 1))

ValidityKinds == {"none", "all", "odd"}

\* Column j of a chunk of n rows.  Arrays of a chunk have the same length.
Column(n, j, k, is_optional, vk) ==
    [ is_optional |-> is_optional,
      values      |-> [i \in 1..n |-> (i * k + j) % (MaxVal + 1)],
      validity    |-> IF is_optional /\ vk # "none" /\ n > 0
                      THEN [i \in 1..n |-> (vk = "all") \/ (i % 2 = 1)]
                      ELSE <<>> ]

Chunks ==
    { [j \in 1..c |-> Column(n, j, k, o, vk)] :
        n \in 0..MaxRows, c \in 1..MaxCols, k \in 0..MaxVal,
        o \in BOOLEAN, vk \in ValidityKinds }

\* chunk.len()
ChunkLen(ch) == Len(ch[1].values)

(***************************************************************************)
(* NativeWriter::encode_chunk (write/common.rs)                            *)
(***************************************************************************)
WriterInit(fails_at, head) ==
    [ pc         |-> "start",
      out        |-> head,      \* bytes accepted by the sink
      offset     |-> Len(head), \* self.writer.offset
      metas      |-> <<>>,      \* self.metas
      page_size  |-> 0,
      leaf       |-> 0,         \* position of the outer loop
      start      |-> 0,
      row        |-> 0,         \* position of (0..length).step_by(page_size)
      page_metas |-> <<>>,
      log        |-> <<>>,      \* history: the pages handed to write()
      writes     |-> 0,         \* pages handed to the sink so far
      fails_at   |-> fails_at,  \* the sink rejects this page write (0: never)
      result     |-> "none" ]

\* What the sink holds when encode_chunk is entered: nothing, or the bytes
\* written before the chunk (ARROW_MAGIC and padding).
StreamHeads == { <<>>, <<65, 82, 82, 79, 87, 50, 0, 0>> }

\* let page_size = max_page_size.unwrap_or(chunk.len()).min(chunk.len())
PageSize(max_page_size, chunk_len) ==
    Min(IF max_page_size = NoPageSize THEN chunk_len ELSE max_page_size, chunk_len)

PageLength_AllRemaining(offset, page_size, length) == length - offset

\* let length = if offset + page_size > length { length - offset } else { page_size }
PageLength(offset, page_size, length) ==
    IF offset + page_size > length THEN length - offset ELSE page_size

PageMetaOf_EndAsLength(page_start, page_end, num_values) ==
    [ length |-> page_end, num_values |-> num_values ]

\* PageMeta { length: page_end - page_start, num_values }
PageMetaOf(page_start, page_end, num_values) ==
    [ length |-> page_end - page_start, num_values |-> num_values ]

\* ColumnMeta { offset: start, pages: page_metas }
ColumnMetaOf(start, page_metas) == [ offset |-> start, pages |-> page_metas ]

\* Entry of encode_chunk up to the first leaf.  (0..length).step_by(0) panics.
EncodeChunkStart ==
    /\ writer.pc = "start"
    /\ LET page_size == PageSize(opts.max_page_size, ChunkLen(chunk))
       IN  writer' = IF page_size = 0
                     THEN [writer EXCEPT !.pc = "panic", !.result = "panic:step_by"]
                     ELSE [writer EXCEPT !.pc = "pages", !.page_size = page_size,
                                         !.leaf = 1, !.start = writer.offset,
                                         !.row = 0, !.page_metas = <<>>]
    /\ UNCHANGED <<opts, chunk, rd, bin, dec, nr, sel, tg, cm, vl, duo, bp, de, bd, dl, st, nv, fx>>

\* One iteration of the page closure: slice, write(..).unwrap(), PageMeta.
WritePage ==
    /\ writer.pc = "pages"
    /\ writer.row < ChunkLen(chunk)
    /\ LET offset     == writer.row
           length     == PageLength(offset, writer.page_size, ChunkLen(chunk))
           sub_array  == slice_parquet_array(chunk[writer.leaf], offset, length)
           bytes      == write_simple(sub_array, opts.compression)
           page_start == writer.offset
           page_end   == page_start + Len(bytes)
       IN  IF writer.writes + 1 = writer.fails_at
           THEN \* write() returns Err(io) after the sink took a prefix; unwrap panics
                \E taken \in 0..(Len(bytes) - 1) :
                    writer' = [writer EXCEPT
                        !.pc = "panic", !.result = "panic:unwrap",
                        !.writes = @ + 1,
                        !.out = @ \o SubSeq(bytes, 1, taken),
                        !.offset = @ + taken]
           ELSE writer' = [writer EXCEPT
                        !.writes = @ + 1,
                        !.out = @ \o bytes,
                        !.offset = page_end,
                        !.row = offset + writer.page_size,
                        !.page_metas = Append(@, PageMetaOf(page_start, page_end, length)),
                        !.log = Append(@, [leaf |-> writer.leaf, offset |-> offset,
                                           page |-> sub_array,
                                           page_start |-> page_start,
                                           page_end |-> page_end])]
    /\ UNCHANGED <<opts, chunk, rd, bin, dec, nr, sel, tg, cm, vl, duo, bp, de, bd, dl, st, nv, fx>>

\* self.metas.push(ColumnMeta {..}); next leaf, or Ok(()) after the last one
PushColumnMeta ==
    /\ writer.pc = "pages"
    /\ writer.row >= ChunkLen(chunk)
    /\ LET metas == Append(writer.metas, ColumnMetaOf(writer.start, writer.page_metas))
       IN  writer' = IF writer.leaf < Len(chunk)
                     THEN [writer EXCEPT !.metas = metas, !.leaf = @ + 1,
                                         !.start = writer.offset, !.row = 0,
                                         !.page_metas = <<>>]
                     ELSE [writer EXCEPT !.metas = metas, !.pc = "done",
                                         !.result = "Ok"]
    /\ UNCHANGED <<opts, chunk, rd, bin, dec, nr, sel, tg, cm, vl, duo, bp, de, bd, dl, st, nv, fx>>

WriterNext == EncodeChunkStart \/ WritePage \/ PushColumnMeta

(***************************************************************************)
(* Page decoding (read/read_basic.rs, read/array/primitive.rs)             *)
(***************************************************************************)
\* A decode step yields a set of outcomes: more than one where the result
\* depends on the build (debug assertions) or on bytes the format leaves
\* undefined.  Failed outcomes carry ok = FALSE.
Failed(why) == [ok |-> FALSE, why |-> why]

Avail(buf, pos, n) == pos <= Len(buf) /\ n <= Len(buf) - pos
Bytes(buf, pos, n) == SubSeq(buf, pos + 1, pos + n)

RECURSIVE BytesToBits(_, _)
BytesToBits(bytes, n) ==
    IF n = 0 \/ bytes = <<>> THEN <<>>
    ELSE LET take == Min(8, n)
             b == Head(bytes)
         IN  [i \in 1..take |-> (b \div (2 ^ (i - 1))) % 2 = 1]
             \o BytesToBits(Tail(bytes), n - take)

\* read_validity: one u32 length, then that many bytes of hybrid-encoded
\* bits pushed on the builder; a length of 0 returns without pushing.
\* A run that is not one bit-packed run of `length` bits ends in a panic
\* (unreachable!) or pushes whatever the decoder finds.
read_validity(buf, pos, length, builder) ==
    IF ~Avail(buf, pos, 4) THEN {Failed("eof")}
    ELSE LET def_levels_len == FromU32le(Bytes(buf, pos, 4))
         IN  IF def_levels_len = 0
             THEN {[ok |-> TRUE, pos |-> pos + 4, builder |-> builder]}
             ELSE IF ~Avail(buf, pos + 4, def_levels_len) THEN {Failed("eof")}
             ELSE LET def_levels == Bytes(buf, pos + 4, def_levels_len)
                      wellformed ==
                          /\ def_levels[1] = 2 * CeilDiv(length, 8) + 1
                          /\ def_levels_len = 1 + CeilDiv(length, 8)
                  IN  IF wellformed
                      THEN {[ok |-> TRUE, pos |-> pos + 4 + def_levels_len,
                             builder |-> builder \o BytesToBits(Tail(def_levels), length)]}
                      ELSE {Failed("panic:levels"),
                            [ok |-> TRUE, pos |-> pos + 4 + def_levels_len,
                             builder |-> builder]}

RECURSIVE BytesToI32(_)
BytesToI32(bytes) ==
    IF Len(bytes) < 4 THEN <<>>
    ELSE <<FromU32le(SubSeq(bytes, 1, 4))>> \o BytesToI32(SubSeq(bytes, 5, Len(bytes)))

\* read_buffer (three arguments) up to the bytes of the buffer: codec tag,
\* compressed and uncompressed size, then byte_size bytes read as they are
\* (Compression::None) or decompressed into a slice of byte_size bytes.
\* read_slice knows the general codecs only.
read_buffer_bytes(buf, pos, byte_size) ==
    IF ~Avail(buf, pos, 1) THEN {Failed("eof")}
    ELSE LET compression == from_codec(buf[pos + 1])
         IN  IF ~raw_mode(compression) THEN {Failed("OutOfSpec")}
             ELSE IF ~Avail(buf, pos + 1, 8) THEN {Failed("eof")}
             ELSE LET compressed_size   == FromU32le(Bytes(buf, pos + 1, 4))
                      uncompressed_size == FromU32le(Bytes(buf, pos + 5, 4))
                      data == pos + 9
                  IN  IF compression = "None"
                      THEN IF ~Avail(buf, data, byte_size) THEN {Failed("eof")}
                           ELSE {[ok |-> TRUE, pos |-> data + byte_size,
                                  bytes |-> Bytes(buf, data, byte_size)]}
                      ELSE (IF uncompressed_size # byte_size
                            THEN {Failed("panic:debug_assert")} ELSE {})
                           \cup
                           (IF ~Avail(buf, data, compressed_size) THEN {Failed("eof")}
                            ELSE LET input == Bytes(buf, data, compressed_size)
                                 IN  IF decompress_ok(compression, input, byte_size)
                                     THEN {[ok |-> TRUE, pos |-> data + compressed_size,
                                            bytes |-> Tail(input)]}
                                     ELSE {Failed("codec")})

\* read_buffer::<i32> (three arguments): `length` values of 4 bytes
read_buffer(buf, pos, length) ==
    { IF ~r.ok THEN r
      ELSE [ok |-> TRUE, pos |-> r.pos, values |-> BytesToI32(r.bytes)] :
      r \in read_buffer_bytes(buf, pos, 4 * length) }

\* PrimitiveArray::try_new: the validity, when present, has the values' length
try_new(values, validity, is_nullable) ==
    IF is_nullable /\ Len(validity) # Len(values) THEN Failed("try_new")
    ELSE [ok |-> TRUE, values |-> values,
          validity |-> IF is_nullable THEN validity ELSE <<>>]

\* PrimitiveIter::deserialize(num_values, buffer)
deserialize(buffer, num_values, is_nullable) ==
    LET vs == IF is_nullable THEN read_validity(buffer, 0, num_values, <<>>)
              ELSE {[ok |-> TRUE, pos |-> 0, builder |-> <<>>]}
    IN  UNION { IF ~v.ok THEN {v}
                ELSE { IF ~b.ok THEN b ELSE try_new(b.values, v.builder, is_nullable) :
                       b \in read_buffer(buffer, v.pos, num_values) } : v \in vs }

(***************************************************************************)
(* Reading a written column back page by page                              *)
(* (NativeReader::next + column_iter_to_arrays, as tests/it/io.rs does)    *)
(***************************************************************************)
\* The page iterator over `pages`, the stream positioned at `pos`: each
\* next() takes exactly page.length bytes, deserialize() makes the array.
RECURSIVE IterPages(_, _, _, _, _)
IterPages(stream, pos, pages, is_nullable, arrays) ==
    IF pages = <<>> THEN {[ok |-> TRUE, arrays |-> arrays]}
    ELSE LET page_meta == Head(pages)
         IN  IF ~Avail(stream, pos, page_meta.length) THEN {Failed("eof")}
             ELSE UNION {
                 IF ~a.ok THEN {a}
                 ELSE IterPages(stream, pos + page_meta.length, Tail(pages),
                                is_nullable, Append(arrays, a)) :
                 a \in deserialize(Bytes(stream, pos, page_meta.length),
                                   page_meta.num_values, is_nullable) }

\* arrow2 concatenate: values in order; a validity when any part has one
Concatenate(arrays) ==
    [ values   |-> Flatten([i \in 1..Len(arrays) |-> arrays[i].values]),
      validity |-> IF \A i \in 1..Len(arrays) : arrays[i].validity = <<>> THEN <<>>
                   ELSE Flatten([i \in 1..Len(arrays) |->
                            IF arrays[i].validity = <<>>
                            THEN [k \in 1..Len(arrays[i].values) |-> TRUE]
                            ELSE arrays[i].validity]) ]

IsValid(a, i) == a.validity = <<>> \/ a.validity[i]

\* Array equality: same length, same validity, same values where valid
ArrayEq(a, b) ==
    /\ Len(a.values) = Len(b.values)
    /\ \A i \in 1..Len(a.values) :
         /\ IsValid(a, i) = IsValid(b, i)
         /\ IsValid(a, i) => a.values[i] = b.values[i]

RdInit == [ pc |-> "idle", col |-> 0, results |-> <<>>, error |-> "none" ]

\* One column of the read-back loop: iterate its pages, unwrap, concatenate.
ReadBackColumn ==
    /\ writer.pc = "done"
    /\ rd.pc \in {"idle", "reading"}
    /\ rd.col < Len(writer.metas)
    /\ LET col  == rd.col + 1
           meta == writer.metas[col]
       IN  \E r \in IterPages(writer.out, meta.offset, meta.pages,
                              chunk[col].is_optional, <<>>) :
               rd' = IF ~r.ok
                     THEN [rd EXCEPT !.pc = "failed", !.col = col, !.error = r.why]
                     ELSE [rd EXCEPT !.pc = IF col = Len(writer.metas)
                                            THEN "done" ELSE "reading",
                                     !.col = col,
                                     !.results = Append(@, Concatenate(r.arrays))]
    /\ UNCHANGED <<opts, chunk, writer, bin, dec, nr, sel, tg, cm, vl, duo, bp, de, bd, dl, st, nv, fx>>

Init ==
    /\ opts \in [ compression : Compressions, max_page_size : PageSizes ]
    /\ chunk \in Chunks
    /\ \E f \in 0..(MaxCols + 1), head \in StreamHeads : writer = WriterInit(f, head)
    /\ rd = RdInit
    /\ bin = Unused /\ dec = Unused /\ nr = Unused /\ sel = Unused
    /\ tg = Unused /\ cm = Unused /\ vl = Unused /\ duo = Unused
    /\ bp = Unused /\ de = Unused /\ bd = Unused
    /\ dl = Unused /\ st = Unused /\ nv = Unused /\ fx = Unused

Next == WriterNext \/ ReadBackColumn

Spec == Init /\ [][Next]_vars

(***************************************************************************)
(* Properties of the writer and of the page-by-page read back              *)
(***************************************************************************)
OriginalColumn(c) == [ values |-> chunk[c].values, validity |-> chunk[c].validity ]

\* C1: a written chunk read back page by page through NativeReader and
\* column_iter_to_arrays, the pages concatenated in order, equals the
\* original chunk: no page fails to decode and every column read back so far
\* equals the column written, value-wise and validity-wise.
C1_RoundTrip ==
    /\ rd.pc # "failed"
    /\ \A c \in 1..Len(rd.results) : ArrayEq(rd.results[c], OriginalColumn(c))

\* The pages of leaf c that were handed to write(), in order
PagesWritten(c) == SelectSeq(writer.log, LAMBDA e : e.leaf = c)

\* p of the claim: max_page_size, or the chunk length when it is absent
EffectivePageSize ==
    IF opts.max_page_size = NoPageSize THEN ChunkLen(chunk) ELSE opts.max_page_size

NumValues(pages) == SumSeq([i \in 1..Len(pages) |-> pages[i].num_values])

\* ColumnMeta::total_len
total_len(meta) == SumSeq([i \in 1..Len(meta.pages) |-> meta.pages[i].length])

\* C5: once encode_chunk has returned, every leaf has exactly ceil(n / p)
\* pages; page i covers rows [i*p, min((i+1)*p, n)), so every page but the
\* last holds p values, the last between 1 and p, and the num_values of the
\* pages sum to n.
C5_PageSlicing ==
    writer.pc = "done" =>
        LET n == ChunkLen(chunk)
            p == EffectivePageSize
        IN  \A c \in 1..Len(chunk) :
              LET pages   == writer.metas[c].pages
                  written == PagesWritten(c)
              IN  /\ Len(pages) = CeilDiv(n, p)
                  /\ Len(written) = Len(pages)
                  /\ NumValues(pages) = n
                  /\ \A i \in 1..Len(pages) :
                       LET first == (i - 1) * p
                           last  == Min(i * p, n)
                       IN  /\ written[i].offset = first
                           /\ written[i].page.values =
                                  SubSeq(chunk[c].values, first + 1, last)
                           /\ pages[i].num_values = last - first
                           /\ pages[i].num_values >= 1
                           /\ pages[i].num_values <= p
                           /\ (i < Len(pages) => pages[i].num_values = p)

\* Witness of C5: a finished chunk whose last page is shorter than the others
C5_Witness ==
    /\ writer.pc = "done"
    /\ ChunkLen(chunk) = 3
    /\ opts.max_page_size = 2
    /\ Len(writer.metas[1].pages) = 2
    /\ writer.metas[1].pages[2].num_values = 1

\* C6: once encode_chunk has returned, every ColumnMeta's offset is the sink
\* offset at which the column's first page began, page k occupies exactly the
\* bytes [offset + sum of earlier lengths, offset + sum of lengths up to k),
\* consecutive metas are contiguous, and the page lengths sum to the bytes
\* the writer emitted for the chunk.
C6_MetaLayout ==
    writer.pc = "done" =>
        LET base == Len(writer.out) - SumSeq([c \in 1..Len(writer.metas) |->
                                                 total_len(writer.metas[c])])
        IN  /\ Len(writer.metas) = Len(chunk)
            /\ writer.offset = Len(writer.out)
            /\ base \in { Len(h) : h \in StreamHeads }
            /\ writer.metas[1].offset = base
            /\ \A c \in 1..Len(writer.metas) :
                 LET meta    == writer.metas[c]
                     written == PagesWritten(c)
                 IN  /\ c < Len(writer.metas) =>
                            writer.metas[c + 1].offset = meta.offset + total_len(meta)
                     /\ written # <<>> => meta.offset = written[1].page_start
                     /\ \A k \in 1..Len(meta.pages) :
                          LET from == meta.offset
                                      + SumSeq([j \in 1..(k - 1) |-> meta.pages[j].length])
                          IN  /\ written[k].page_start = from
                              /\ written[k].page_end = from + meta.pages[k].length
                              /\ Bytes(writer.out, from, meta.pages[k].length)
                                     = write_simple(written[k].page, opts.compression)

\* Witness of C6: two leaves of several pages written after a stream head
C6_Witness ==
    /\ writer.pc = "done"
    /\ Len(writer.metas) = 2
    /\ Len(writer.metas[1].pages) >= 2
    /\ writer.metas[1].offset > 0
    /\ writer.metas[2].offset > writer.metas[1].offset

\* The sink has rejected a page write
PageWriteFailed == writer.fails_at # 0 /\ writer.writes >= writer.fails_at

\* C10: when writing a page fails, encode_chunk stops at that page and
\* returns the error as Err: it neither panics nor reports the chunk written.
C10_WriteErrorReturned == PageWriteFailed => writer.result = "Err"

(***************************************************************************)
(* Byte-slice columns: write/binary.rs and read/array/binary.rs            *)
(***************************************************************************)
Last(s) == s[Len(s)]

\* A BinaryArray<i32> over items of the given lengths: offsets and values.
\* The byte at position p of the values buffer is 97 + p % 3.
RECURSIVE OffsetsOf(_)
OffsetsOf(lens) ==
    IF lens = <<>> THEN <<0>>
    ELSE LET front == OffsetsOf(SubSeq(lens, 1, Len(lens) - 1))
         IN  Append(front, Last(front) + Last(lens))

BinaryColumn(lens) ==
    [ offsets |-> OffsetsOf(lens),
      values  |-> [p \in 1..SumSeq(lens) |-> 97 + (p % 3)] ]

BinaryColumns ==
    { BinaryColumn(lens) : lens \in UNION { [1..n -> 0..MaxItem] : n \in 1..MaxRows } }

\* The items of an array: values[offsets[i] .. offsets[i+1]) for each i
Items(a) ==
    [i \in 1..(Len(a.offsets) - 1) |-> SubSeq(a.values, a.offsets[i] + 1, a.offsets[i + 1])]

\* write_raw_binary: the offsets rebased to start at 0, then the bytes
\* values[first..last], each as one buffer
write_raw_binary(offsets, values, compression) ==
    LET first == offsets[1]
        last  == Last(offsets)
    IN  (IF first = 0
         THEN write_buffer(offsets, compression)
         ELSE write_buffer([i \in 1..Len(offsets) |-> offsets[i] - first], compression))
        \o write_buffer_u8(SubSeq(values, first + 1, last), compression)

\* write_binary with a raw-mode compression: one extra codec byte, then the
\* raw offsets and values
write_binary(offsets, values, compression) ==
    <<CodecOf(compression)>> \o write_raw_binary(offsets, values, compression)

\* read_buffer with an output buffer (four arguments), for offsets: the
\* buffer header as in read_buffer, `length` values appended to out_buf
read_buffer_offsets(buf, pos, length, out_buf) ==
    { IF ~r.ok THEN r
      ELSE [ok |-> TRUE, pos |-> r.pos, out |-> out_buf \o BytesToI32(r.bytes)] :
      r \in read_buffer_bytes(buf, pos, 4 * length) }

\* read_buffer with an output buffer (four arguments), for bytes
read_buffer_values(buf, pos, length, out_buf) ==
    { IF ~r.ok THEN r
      ELSE [ok |-> TRUE, pos |-> r.pos, out |-> out_buf \o r.bytes] :
      r \in read_buffer_bytes(buf, pos, length) }

\* The "fix offset" loop of read_binary_buffer:
\*   for i in offsets.len() - length - 1 .. offsets.len() - 1
\*       offsets[i] = start_offset + offsets[i + 1]
\* (indices from 0).  Element i + 1 is read before the loop reaches it.
FixOffsets(offsets, length, start_offset) ==
    [j \in 1..Len(offsets) |->
        IF Len(offsets) - length <= j /\ j <= Len(offsets) - 1
        THEN start_offset + offsets[j + 1]
        ELSE offsets[j]]

\* read_binary_buffer, raw mode.  The pages of this model are written in
\* raw mode; the typed-codec branch is decompress_binary_array's.
read_binary_buffer(buf, pos, length, offsets, values) ==
    IF ~Avail(buf, pos, 1) THEN {Failed("eof")}
    ELSE LET compression == from_codec(buf[pos + 1])
         IN  IF compression = "Err" THEN {Failed("OutOfSpec")}
             ELSE IF ~raw_mode(compression) THEN {Failed("typed codec")}
             ELSE UNION {
                 IF ~o.ok THEN {o}
                 ELSE { IF ~v.ok THEN v
                        ELSE [ok |-> TRUE, pos |-> v.pos, values |-> v.out,
                              local |-> SubSeq(o.out, Len(offsets) + 1, Len(o.out)),
                              offsets |-> IF offsets = <<>> THEN o.out
                                          ELSE FixOffsets(o.out, length, Last(offsets))] :
                        v \in read_buffer_values(buf, o.pos, Last(o.out), values) } :
                 o \in read_buffer_offsets(buf, pos + 1, 1 + length, offsets) }

\* try_new_binary_array on unchecked offsets, no validity:
\* BinaryArray::try_new refuses offsets whose last exceeds the values
try_new_binary_array(offsets, values) ==
    IF Last(offsets) > Len(values) THEN Failed("try_new")
    ELSE [ok |-> TRUE, offsets |-> offsets, values |-> values]

\* BinaryIter::deserialize of a required column: fresh offsets and values
deserialize_binary(buffer, num_values) ==
    { IF ~r.ok THEN r ELSE try_new_binary_array(r.offsets, r.values) :
      r \in read_binary_buffer(buffer, 0, num_values, <<>>, <<>>) }

BinInit(column, compression, max_page_size) ==
    [ pc          |-> "write",
      column      |-> column,
      compression |-> compression,
      page_size   |-> PageSize(max_page_size, Len(column.offsets) - 1),
      row         |-> 0,
      stream      |-> <<>>,      \* the column's pages, one after the other
      metas       |-> <<>>,      \* their PageMeta
      page        |-> 0,         \* pages consumed by the reader at work
      pos         |-> 0,         \* its position in the stream
      offsets     |-> <<>>,      \* read_binary: the shared offsets
      values      |-> <<>>,      \* read_binary: the shared values
      hist        |-> <<>>,      \* history: the offsets around each page decode
      batch       |-> [ok |-> FALSE, why |-> "none"],
      arrays      |-> <<>>,      \* the arrays of the page iterator
      error       |-> "none" ]

\* One page of the column written as encode_chunk slices it
WriteBinaryPage ==
    /\ bin.pc = "write"
    /\ LET n      == Len(bin.column.offsets) - 1
           length == PageLength(bin.row, bin.page_size, n)
           sub    == SubSeq(bin.column.offsets, bin.row + 1, bin.row + length + 1)
           bytes  == write_binary(sub, bin.column.values, bin.compression)
           row    == bin.row + bin.page_size
       IN  bin' = [bin EXCEPT
                    !.stream = @ \o bytes,
                    !.metas = Append(@, PageMetaOf(Len(bin.stream),
                                                   Len(bin.stream) + Len(bytes), length)),
                    !.row = row,
                    !.pc = IF row >= n THEN "batch" ELSE "write"]
    /\ UNCHANGED <<opts, chunk, writer, rd, dec, nr, sel, tg, cm, vl, duo, bp, de, bd, dl, st, nv, fx>>

\* read_binary: one iteration of `for page_meta in page_metas`
ReadBinaryPage ==
    /\ bin.pc = "batch"
    /\ bin.page < Len(bin.metas)
    /\ LET length == bin.metas[bin.page + 1].num_values
       IN  \E r \in read_binary_buffer(bin.stream, bin.pos, length, bin.offsets, bin.values) :
               bin' = IF ~r.ok
                      THEN [bin EXCEPT !.pc = "iter", !.batch = r, !.page = 0, !.pos = 0]
                      ELSE [bin EXCEPT
                              !.page = @ + 1, !.pos = r.pos,
                              !.offsets = r.offsets, !.values = r.values,
                              !.hist = Append(@, [before |-> bin.offsets,
                                                  after  |-> r.offsets,
                                                  local  |-> r.local,
                                                  length |-> length])]
    /\ UNCHANGED <<opts, chunk, writer, rd, dec, nr, sel, tg, cm, vl, duo, bp, de, bd, dl, st, nv, fx>>

\* read_binary: after the last page, try_new_binary_array
ReadBinaryFinish ==
    /\ bin.pc = "batch"
    /\ bin.page = Len(bin.metas)
    /\ bin' = [bin EXCEPT !.pc = "iter", !.page = 0, !.pos = 0,
                          !.batch = try_new_binary_array(bin.offsets, bin.values)]
    /\ UNCHANGED <<opts, chunk, writer, rd, dec, nr, sel, tg, cm, vl, duo, bp, de, bd, dl, st, nv, fx>>

\* BinaryIter::next: the page's bytes from NativeReader, then deserialize
IterBinaryPage ==
    /\ bin.pc = "iter"
    /\ bin.page < Len(bin.metas)
    /\ LET page_meta == bin.metas[bin.page + 1]
           buffer    == Bytes(bin.stream, bin.pos, page_meta.length)
       IN  \E a \in deserialize_binary(buffer, page_meta.num_values) :
               bin' = IF ~a.ok
                      THEN [bin EXCEPT !.pc = "done", !.error = a.why]
                      ELSE [bin EXCEPT
                              !.page = @ + 1, !.pos = @ + page_meta.length,
                              !.arrays = Append(@, a),
                              !.pc = IF bin.page + 1 = Len(bin.metas)
                                     THEN "done" ELSE "iter"]
    /\ UNCHANGED <<opts, chunk, writer, rd, dec, nr, sel, tg, cm, vl, duo, bp, de, bd, dl, st, nv, fx>>

InitBinary ==
    /\ \E column \in BinaryColumns, c \in Compressions,
          p \in {NoPageSize} \cup (1..MaxRows) : bin = BinInit(column, c, p)
    /\ opts = Unused /\ chunk = Unused /\ writer = Unused /\ rd = Unused
    /\ dec = Unused /\ nr = Unused /\ sel = Unused
    /\ tg = Unused /\ cm = Unused /\ vl = Unused /\ duo = Unused
    /\ bp = Unused /\ de = Unused /\ bd = Unused
    /\ dl = Unused /\ st = Unused /\ nv = Unused /\ fx = Unused

NextBinary == WriteBinaryPage \/ ReadBinaryPage \/ ReadBinaryFinish \/ IterBinaryPage

SpecBinary == InitBinary /\ [][NextBinary]_vars

\* The items of the arrays of the page iterator, in page order
IteratedItems == Flatten([i \in 1..Len(bin.arrays) |-> Items(bin.arrays[i])])

\* C2: for a written column, batch_read_array over the column's page metas
\* returns an array equal to the in-order concatenation of the arrays that
\* the page iterator decodes from the same pages.
C2_BatchEqualsPages ==
    (bin.pc = "done" /\ bin.error = "none") =>
        /\ bin.batch.ok
        /\ Len(bin.batch.offsets) - 1 = Len(IteratedItems)
        /\ Items(bin.batch) = IteratedItems

IsNonDecreasing(s) == \A i \in 1..(Len(s) - 1) : s[i] <= s[i + 1]

\* C3: decoding page k into a shared offsets buffer that holds the offsets
\* of the earlier pages leaves those unchanged and appends exactly
\* value_count(k) offsets, each the last prior offset plus the page's own
\* zero-based offset; after all pages the buffer holds 1 + (sum of
\* value_count) offsets and is non-decreasing.
C3_OffsetContinuity ==
    /\ \A k \in 1..Len(bin.hist) :
         LET h == bin.hist[k]
         IN  h.before # <<>> =>
               /\ SubSeq(h.after, 1, Len(h.before)) = h.before
               /\ Len(h.after) = Len(h.before) + h.length
               /\ \A i \in 1..h.length :
                    h.after[Len(h.before) + i] = Last(h.before) + h.local[i + 1]
    /\ (bin.pc \in {"iter", "done"} /\ Len(bin.hist) = Len(bin.metas)) =>
         /\ Len(bin.offsets) = 1 + NumValues(bin.metas)
         /\ IsNonDecreasing(bin.offsets)

(***************************************************************************)
(* Run-length pages: compression/integer/mod.rs, compression/integer/rle.rs*)
(* and compression/boolean/rle.rs                                          *)
(***************************************************************************)
\* One run as RLE::compress_native writes it: u32 count, then the value
\* (4 bytes for i32, 1 byte for a boolean)
IntegerRun(len, value) == U32le(len) \o U32le(value)
BooleanRun(len, value) == U32le(len) \o <<value>>

RunSeqs == UNION { [1..k -> [len : 0..MaxRun, value : 0..MaxVal]] : k \in 0..MaxRuns }

PayloadOf(kind, runs) ==
    Flatten([i \in 1..Len(runs) |->
                IF kind = "integer" THEN IntegerRun(runs[i].len, runs[i].value)
                ELSE BooleanRun(runs[i].len, runs[i].value)])

\* Bytes cut from the end of a payload: none, part of the last value,
\* the last value and part of its count
Cuts == {0, 1, 4}

\* The page header: codec, compressed size, uncompressed size
read_compress_header(buf) ==
    IF Len(buf) < 9 THEN Failed("eof")
    ELSE [ok |-> TRUE, codec |-> buf[1],
          compressed_size |-> FromU32le(SubSeq(buf, 2, 5)),
          uncompressed_size |-> FromU32le(SubSeq(buf, 6, 9))]

\* decompress_native / decode_bitmap up to the codec's decompress: the
\* header, from_codec, and the input handed to the codec.  When the
\* reader's buffer holds at least compressed_size bytes the codec gets the
\* whole buffer (any amount from compressed_size up to what follows),
\* otherwise exactly compressed_size bytes read into scratch.
PageInputs(buf) ==
    LET h == read_compress_header(buf)
    IN  IF ~h.ok THEN {h}
        ELSE IF from_codec(h.codec) = "Err" THEN {Failed("OutOfSpec")}
        ELSE LET rest == SubSeq(buf, 10, Len(buf))
             IN  IF Len(rest) < h.compressed_size THEN {Failed("eof")}
                 ELSE { [ok |-> TRUE, compression |-> from_codec(h.codec),
                         input |-> SubSeq(rest, 1, m)] :
                        m \in {h.compressed_size, Len(rest)} }

DecInit(kind, buffer, length, prior) ==
    [ kind       |-> kind,
      pc         |-> "header",
      buffer     |-> buffer,     \* what the reader holds: header, payload, rest
      input      |-> <<>>,       \* the codec's input not yet consumed
      length     |-> length,     \* the declared value count
      prior      |-> prior,      \* values in the output before the page
      output     |-> prior,
      num_values |-> 0,
      result     |-> "none" ]

DecStart(r) ==
    IF ~r.ok THEN [dec EXCEPT !.pc = "done", !.result = "Err"]
    ELSE IF r.compression # "RLE" THEN [dec EXCEPT !.pc = "done", !.result = "other codec"]
    ELSE [dec EXCEPT !.pc = "loop", !.input = r.input]

\* compression/integer/mod.rs decompress_native, up to c.decompress
DecompressNative ==
    /\ dec.kind = "integer"
    /\ dec.pc = "header"
    /\ \E r \in PageInputs(dec.buffer) : dec' = DecStart(r)
    /\ UNCHANGED <<opts, chunk, writer, rd, bin, nr, sel, tg, cm, vl, duo, bp, de, bd, dl, st, nv, fx>>

\* compression/boolean/mod.rs decode_bitmap, up to c.decompress
DecodeBitmap ==
    /\ dec.kind = "boolean"
    /\ dec.pc = "header"
    /\ \E r \in PageInputs(dec.buffer) : dec' = DecStart(r)
    /\ UNCHANGED <<opts, chunk, writer, rd, bin, nr, sel, tg, cm, vl, duo, bp, de, bd, dl, st, nv, fx>>

\* One run pushed on the output, and the loop's exit test
PushRun(len, t, rest) ==
    [dec EXCEPT !.output = @ \o [i \in 1..len |-> t],
                !.input = rest,
                !.num_values = @ + len,
                !.pc = IF dec.num_values + len >= dec.length THEN "done" ELSE "loop",
                !.result = IF dec.num_values + len >= dec.length THEN "Ok" ELSE "none"]

\* integer RLE::decompress_native: one iteration of `loop`
IntegerRleRun ==
    /\ dec.kind = "integer"
    /\ dec.pc = "loop"
    /\ dec' = IF Len(dec.input) < 8
              THEN [dec EXCEPT !.pc = "done", !.result = "Err"]
              ELSE PushRun(FromU32le(SubSeq(dec.input, 1, 4)),
                           FromU32le(SubSeq(dec.input, 5, 8)),
                           SubSeq(dec.input, 9, Len(dec.input)))
    /\ UNCHANGED <<opts, chunk, writer, rd, bin, nr, sel, tg, cm, vl, duo, bp, de, bd, dl, st, nv, fx>>

\* boolean RLE::decompress: one iteration of `while !input.is_empty()`,
\* or the loop's exit on an empty input
BooleanRleRun ==
    /\ dec.kind = "boolean"
    /\ dec.pc = "loop"
    /\ dec' = IF dec.input = <<>>
              THEN [dec EXCEPT !.pc = "done", !.result = "Ok"]
              ELSE IF Len(dec.input) < 5
              THEN [dec EXCEPT !.pc = "done", !.result = "Err"]
              ELSE PushRun(FromU32le(SubSeq(dec.input, 1, 4)),
                           dec.input[5] # 0,
                           SubSeq(dec.input, 6, Len(dec.input)))
    /\ UNCHANGED <<opts, chunk, writer, rd, bin, nr, sel, tg, cm, vl, duo, bp, de, bd, dl, st, nv, fx>>

\* A page: the header over the first `inside` runs, cut short by `cut`
\* bytes, followed by the bytes of the runs after them
RlePage(kind, tag, runs, inside, cut) ==
    LET full    == PayloadOf(kind, SubSeq(runs, 1, inside))
        payload == SubSeq(full, 1, Len(full) - Min(cut, Len(full)))
    IN  <<tag>> \o U32le(Len(payload)) \o U32le(0) \o payload
        \o PayloadOf(kind, SubSeq(runs, inside + 1, Len(runs)))

InitRle ==
    /\ \E kind \in {"integer", "boolean"}, runs \in RunSeqs, cut \in Cuts,
          tag \in {CodecOf("RLE"), CodecOf("RLE") - 1},
          length \in 0..MaxRows, prior \in {<<>>, <<0>>} :
        \E inside \in 0..Len(runs) :
            dec = DecInit(kind, RlePage(kind, tag, runs, inside, cut), length, prior)
    /\ opts = Unused /\ chunk = Unused /\ writer = Unused /\ rd = Unused
    /\ bin = Unused /\ nr = Unused /\ sel = Unused
    /\ tg = Unused /\ cm = Unused /\ vl = Unused /\ duo = Unused
    /\ bp = Unused /\ de = Unused /\ bd = Unused
    /\ dl = Unused /\ st = Unused /\ nv = Unused /\ fx = Unused

NextRle == DecompressNative \/ DecodeBitmap \/ IntegerRleRun \/ BooleanRleRun

SpecRle == InitRle /\ [][NextRle]_vars

\* C4: when an integer or boolean page decode returns Ok, the output grew by
\* exactly the declared value count n; run lengths that sum to more than n,
\* or bytes that end before n values, are not accepted.
C4_ExactCount ==
    (dec.pc = "done" /\ dec.result = "Ok") =>
        Len(dec.output) = Len(dec.prior) + dec.length

(***************************************************************************)
(* NativeReader (read/reader.rs)                                           *)
(***************************************************************************)
\* A reader: the stream and the position of page_reader in it, the page
\* metas and current_page.
NewReader(stream, pos, page_metas) ==
    [ stream |-> stream, pos |-> pos, page_metas |-> page_metas, current_page |-> 0 ]

\* NativeReader::has_next
has_next(r) == r.current_page < Len(r.page_metas)

ItemNone == [kind |-> "None"]
ItemErr  == [kind |-> "Err"]
ItemOk(num_values, buffer) == [kind |-> "Ok", num_values |-> num_values, buffer |-> buffer]

reader_next_Repeat(r) ==
    IF r.current_page = Len(r.page_metas) THEN {[r |-> r, item |-> ItemNone]}
    ELSE LET page_meta == r.page_metas[r.current_page + 1]
         IN  {[r |-> [r EXCEPT !.pos = @ + page_meta.length],
               item |-> ItemOk(page_meta.num_values,
                               Bytes(r.stream, r.pos, page_meta.length))]}

\* NativeReader::next.  After a failed read_exact the position of the
\* stream is unspecified.
reader_next(r) ==
    IF r.current_page = Len(r.page_metas) THEN {[r |-> r, item |-> ItemNone]}
    ELSE LET page_meta == r.page_metas[r.current_page + 1]
         IN  IF ~Avail(r.stream, r.pos, page_meta.length)
             THEN { [r |-> [r EXCEPT !.pos = p], item |-> ItemErr] :
                    p \in Min(r.pos, Len(r.stream))..Len(r.stream) }
             ELSE {[r |-> [r EXCEPT !.pos = @ + page_meta.length,
                                    !.current_page = @ + 1],
                    item |-> ItemOk(page_meta.num_values,
                                    Bytes(r.stream, r.pos, page_meta.length))]}

\* nth that forgets the pages to step over
reader_nth_NoSkip(r, n) == reader_next(r)

\* NativeReader::nth: step over up to n pages, seek past their bytes, next()
reader_nth(r, n) ==
    LET i      == Min(n, Len(r.page_metas) - r.current_page)
        length == SumSeq([j \in 1..i |-> r.page_metas[r.current_page + j].length])
        r1     == [r EXCEPT !.current_page = @ + i]
    IN  IF i < n THEN {[r |-> r1, item |-> ItemNone]}
        ELSE reader_next([r1 EXCEPT !.pos = @ + length])

\* NativeReader::skip_page
skip_page(r) ==
    IF r.current_page = Len(r.page_metas) THEN r
    ELSE [r EXCEPT !.pos = @ + r.page_metas[r.current_page + 1].length,
                   !.current_page = @ + 1]

\* The reader and the history of the calls made on it
NrInit(stream, start, page_metas) ==
    [ r         |-> NewReader(stream, start, page_metas),
      start     |-> start,
      calls     |-> 0,          \* calls made
      nexts     |-> 0,          \* of them, calls of next()
      only_next |-> TRUE,       \* no nth() and no skip_page() so far
      io_error  |-> FALSE,      \* a call returned Err
      last      |-> [op |-> "new", n |-> 0, item |-> ItemNone,
                     before |-> start, after |-> start] ]

CallRecord(op, n, o) ==
    [nr EXCEPT !.r = o.r,
               !.calls = @ + 1,
               !.nexts = IF op = "next" THEN @ + 1 ELSE @,
               !.only_next = @ /\ op = "next",
               !.io_error = @ \/ o.item.kind = "Err",
               !.last = [op |-> op, n |-> n, item |-> o.item,
                         before |-> nr.r.pos, after |-> o.r.pos]]

MoreCalls == nr.calls < Len(nr.r.page_metas) + 2

ReaderNext ==
    /\ MoreCalls
    /\ \E o \in reader_next(nr.r) : nr' = CallRecord("next", 0, o)
    /\ UNCHANGED <<opts, chunk, writer, rd, bin, dec, sel, tg, cm, vl, duo, bp, de, bd, dl, st, nv, fx>>

ReaderNth ==
    /\ MoreCalls
    /\ \E n \in 0..Len(nr.r.page_metas) :
        \E o \in reader_nth(nr.r, n) : nr' = CallRecord("nth", n, o)
    /\ UNCHANGED <<opts, chunk, writer, rd, bin, dec, sel, tg, cm, vl, duo, bp, de, bd, dl, st, nv, fx>>

ReaderSkipPage ==
    /\ MoreCalls
    /\ nr' = CallRecord("skip_page", 0, [r |-> skip_page(nr.r), item |-> ItemNone])
    /\ UNCHANGED <<opts, chunk, writer, rd, bin, dec, sel, tg, cm, vl, duo, bp, de, bd, dl, st, nv, fx>>

\* A stream whose byte at position i is i % 256, `missing` bytes short of
\* the pages' total
InitReader ==
    /\ \E n \in 0..MaxPages, start \in {0, 8}, missing \in {0, 1} :
        \E lengths \in [1..n -> 0..MaxPageLen] :
            LET page_metas == [i \in 1..n |-> [length |-> lengths[i], num_values |-> i]]
                total      == start + SumSeq(lengths)
                have       == IF SumSeq(lengths) >= missing THEN total - missing ELSE total
            IN  nr = NrInit([i \in 1..have |-> i % 256], start, page_metas)
    /\ opts = Unused /\ chunk = Unused /\ writer = Unused /\ rd = Unused
    /\ bin = Unused /\ dec = Unused /\ sel = Unused
    /\ tg = Unused /\ cm = Unused /\ vl = Unused /\ duo = Unused
    /\ bp = Unused /\ de = Unused /\ bd = Unused
    /\ dl = Unused /\ st = Unused /\ nv = Unused /\ fx = Unused

NextReader == ReaderNext \/ ReaderNth \/ ReaderSkipPage

SpecReader == InitReader /\ [][NextReader]_vars

\* Where page k (from 1) begins in the stream
PageBegin(k) ==
    nr.start + SumSeq([j \in 1..(k - 1) |-> nr.r.page_metas[j].length])

\* C7: on a reader over N page metas driven by next() alone over a stream
\* without I/O errors, the k-th next() (k = 1..N) returns page k-1's
\* num_values and exactly its `length` bytes, taken right after the bytes of
\* the page before; has_next() is true exactly while fewer than N pages were
\* consumed; every next() after the N-th returns None and reads nothing.
C7_NextInOrder ==
    (nr.only_next /\ ~nr.io_error) =>
        LET k == nr.nexts
            N == Len(nr.r.page_metas)
        IN  /\ nr.r.current_page = Min(k, N)
            /\ has_next(nr.r) <=> (k < N)
            /\ (1 <= k /\ k <= N) =>
                 /\ nr.last.item = ItemOk(nr.r.page_metas[k].num_values,
                                          Bytes(nr.r.stream, PageBegin(k),
                                                nr.r.page_metas[k].length))
                 /\ Len(nr.last.item.buffer) = nr.r.page_metas[k].length
                 /\ nr.last.before = PageBegin(k)
                 /\ nr.last.after = PageBegin(k + 1)
            /\ k > N =>
                 /\ nr.last.item = ItemNone
                 /\ nr.last.after = nr.last.before

\* Witness of C7: three pages of bytes read in order, then a next() that
\* returned None
C7_Witness ==
    /\ nr.only_next /\ ~nr.io_error
    /\ Len(nr.r.page_metas) = 3
    /\ \A j \in 1..3 : nr.r.page_metas[j].length >= 1
    /\ nr.nexts = 4
    /\ nr.last.item = ItemNone
    /\ nr.r.pos = Len(nr.r.stream)

(***************************************************************************)
(* Codec selection: choose_compressor of compression/integer/mod.rs,       *)
(* compression/boolean/mod.rs and compression/binary/mod.rs, and the index *)
(* stream of compression/binary/dict.rs                                    *)
(***************************************************************************)
\* The typed encoders each choose_compressor tries, in its order
Encoders(kind) ==
    CASE kind = "integer" -> <<"RLE", "Dict">>
      [] kind = "boolean" -> <<"OneValue", "RLE">>
      [] kind = "binary"  -> <<"OneValue", "Dict">>

TypedCodecs == {"RLE", "Dict", "OneValue"}

\* default_compress_ratio: Option<f32>; NoRatio stands for None
NoRatio == -1

WriteOptionsSet ==
    [ default_compression    : {"LZ4", "ZSTD"},
      default_compress_ratio : {NoRatio} \cup (0..MaxRatio),
      forbidden_compressions : SUBSET TypedCodecs ]

\* compress_ratio(stats) of each encoder of a page
RatiosOf(kind) == [ {Encoders(kind)[i] : i \in 1..2} -> 0..MaxRatio ]

Better_OrEqual(r, max_ratio) == r >= max_ratio

\* if r > max_ratio
Better(r, max_ratio) == r > max_ratio

\* write_options.forbidden_compressions.contains(&encoder.to_compression())
IsForbidden(write_options, encoder) == encoder \in write_options.forbidden_compressions

DictWriteOptions_Unchanged(write_options) == write_options

\* Dict::compress: write_options.forbidden_compressions.push(Compression::Dict)
DictWriteOptions(write_options) ==
    [write_options EXCEPT !.forbidden_compressions = @ \cup {"Dict"}]

\* A selection in progress: the loop of choose_compressor
Selection(kind, write_options, ratios) ==
    [ kind          |-> kind,
      write_options |-> write_options,
      ratios        |-> ratios,
      i             |-> 0,          \* encoders tried
      max_ratio     |-> 0,
      result        |-> "none" ]

SelInit(kind, write_options, ratios) ==
    [ pc      |-> "start",
      page    |-> Selection(kind, write_options, ratios),   \* the page's codec
      indices |-> Selection("none", write_options, <<>>),   \* a Dict page's index stream
      now     |-> "page" ]

\* The selection at work and its replacement
Current == IF sel.now = "page" THEN sel.page ELSE sel.indices
WithCurrent(c, pc) ==
    IF sel.now = "page" THEN [sel EXCEPT !.page = c, !.pc = pc]
    ELSE [sel EXCEPT !.indices = c, !.pc = pc]

\* choose_compressor up to the loop: basic, and max_ratio = ratio if set
ChooseStart ==
    /\ sel.pc = "start"
    /\ LET c     == Current
           basic == c.write_options.default_compression
           ratio == c.write_options.default_compress_ratio
       IN  sel' = IF ratio = NoRatio
                  THEN WithCurrent([c EXCEPT !.result = basic], "chosen")
                  ELSE WithCurrent([c EXCEPT !.result = basic, !.max_ratio = ratio], "loop")
    /\ UNCHANGED <<opts, chunk, writer, rd, bin, dec, nr, tg, cm, vl, duo, bp, de, bd, dl, st, nv, fx>>

\* One iteration of `for encoder in compressors`
ChooseEncoder ==
    /\ sel.pc = "loop"
    /\ LET c       == Current
           encoder == Encoders(c.kind)[c.i + 1]
           r       == c.ratios[encoder]
           c1      == [c EXCEPT !.i = @ + 1]
           pc      == IF c.i + 1 = Len(Encoders(c.kind)) THEN "chosen" ELSE "loop"
       IN  sel' = IF IsForbidden(c.write_options, encoder) THEN WithCurrent(c1, pc)
                  ELSE IF Better(r, c.max_ratio)
                  THEN WithCurrent([c1 EXCEPT !.max_ratio = r, !.result = encoder], pc)
                  ELSE WithCurrent(c1, pc)
    /\ UNCHANGED <<opts, chunk, writer, rd, bin, dec, nr, tg, cm, vl, duo, bp, de, bd, dl, st, nv, fx>>

\* The chosen codec compresses the page.  The byte-slice Dict codec hands
\* its indices to compress_integer with Dict forbidden; every other codec
\* is done.
CompressPage ==
    /\ sel.pc = "chosen"
    /\ IF sel.now = "page" /\ sel.page.kind = "binary" /\ sel.page.result = "Dict"
       THEN \E ratios \in RatiosOf("integer") :
               sel' = [sel EXCEPT
                         !.pc = "start", !.now = "indices",
                         !.indices = Selection("integer",
                                               DictWriteOptions(sel.page.write_options),
                                               ratios)]
       ELSE sel' = [sel EXCEPT !.pc = "done"]
    /\ UNCHANGED <<opts, chunk, writer, rd, bin, dec, nr, tg, cm, vl, duo, bp, de, bd, dl, st, nv, fx>>

InitChoose ==
    /\ \E kind \in {"integer", "boolean", "binary"}, write_options \in WriteOptionsSet :
        \E ratios \in RatiosOf(kind) : sel = SelInit(kind, write_options, ratios)
    /\ opts = Unused /\ chunk = Unused /\ writer = Unused /\ rd = Unused
    /\ bin = Unused /\ dec = Unused /\ nr = Unused
    /\ tg = Unused /\ cm = Unused /\ vl = Unused /\ duo = Unused
    /\ bp = Unused /\ de = Unused /\ bd = Unused
    /\ dl = Unused /\ st = Unused /\ nv = Unused /\ fx = Unused

NextChoose == ChooseStart \/ ChooseEncoder \/ CompressPage

SpecChoose == InitChoose /\ [][NextChoose]_vars

\* The selections that have returned
Returned ==
    (IF sel.pc \in {"chosen", "done"} \/ sel.now = "indices" THEN {sel.page} ELSE {})
    \cup (IF sel.now = "indices" /\ sel.pc \in {"chosen", "done"} THEN {sel.indices} ELSE {})

\* The non-forbidden encoders (by position) whose ratio passes `reaches`
EligibleAtLeast(c) ==
    { i \in 1..Len(Encoders(c.kind)) :
        /\ ~IsForbidden(c.write_options, Encoders(c.kind)[i])
        /\ c.ratios[Encoders(c.kind)[i]] >= c.write_options.default_compress_ratio }

EligibleAbove(c) ==
    { i \in 1..Len(Encoders(c.kind)) :
        /\ ~IsForbidden(c.write_options, Encoders(c.kind)[i])
        /\ c.ratios[Encoders(c.kind)[i]] > c.write_options.default_compress_ratio }

\* The encoder of greatest ratio among `eligible`, the earliest of equals;
\* the default general codec when there is none
BestOf(c, eligible) ==
    IF eligible = {} THEN c.write_options.default_compression
    ELSE LET best == CHOOSE i \in eligible :
                        \A j \in eligible :
                            \/ c.ratios[Encoders(c.kind)[j]] < c.ratios[Encoders(c.kind)[i]]
                            \/ (c.ratios[Encoders(c.kind)[j]] = c.ratios[Encoders(c.kind)[i]]
                                /\ i <= j)
         IN  Encoders(c.kind)[best]

\* C8 as stated: with min_ratio set, choose_compressor returns the
\* non-forbidden typed codec of greatest ratio among those whose ratio is
\* >= min_ratio (a ratio equal to min_ratio is eligible), the earlier codec
\* on equal ratios, and the default general codec only when no typed codec
\* reaches min_ratio.
C8_AtLeastMinRatio ==
    \A c \in Returned :
        c.write_options.default_compress_ratio # NoRatio =>
            c.result = BestOf(c, EligibleAtLeast(c))

\* C8 amended: as above, but a typed codec is eligible only when its ratio
\* is strictly greater than min_ratio; a ratio equal to min_ratio yields the
\* default general codec.
C8_AboveMinRatio ==
    \A c \in Returned :
        c.write_options.default_compress_ratio # NoRatio =>
            c.result = BestOf(c, EligibleAbove(c))

\* Witness of C8: both encoders allowed, of equal ratio above min_ratio,
\* and the first one returned
C8_Witness ==
    /\ sel.pc = "done" /\ sel.now = "page"
    /\ sel.page.kind = "integer"
    /\ sel.page.write_options.forbidden_compressions = {}
    /\ sel.page.write_options.default_compress_ratio = 1
    /\ sel.page.ratios["RLE"] = 2 /\ sel.page.ratios["Dict"] = 2
    /\ sel.page.result = "RLE"

\* C9: the typed codec that choose_compressor returns is never in
\* forbidden_compressions, and the index stream of a byte-slice Dict page is
\* selected with Dict forbidden, so it is never Dict-encoded.
C9_NeverForbidden ==
    /\ \A c \in Returned :
         c.result \in TypedCodecs => ~IsForbidden(c.write_options, c.result)
    /\ sel.now = "indices" =>
         /\ "Dict" \in sel.indices.write_options.forbidden_compressions
         /\ sel.indices.result # "Dict"

\* Witness of C9: the indices of a Dict page, for which Dict has the
\* greatest ratio, encoded by another codec
C9_Witness ==
    /\ sel.pc = "done" /\ sel.now = "indices"
    /\ sel.page.result = "Dict"
    /\ sel.indices.write_options.default_compress_ratio = 0
    /\ sel.indices.ratios["Dict"] = 2 /\ sel.indices.ratios["RLE"] = 1
    /\ sel.indices.result = "RLE"

(***************************************************************************)
(* Codec tags of a page: Compression::from_codec, From<Compression> for u8 *)
(* and from_compression of each leaf type                                  *)
(***************************************************************************)
\* enum Compression
Codecs == {"None", "LZ4", "ZSTD", "SNAPPY", "RLE", "Dict"}

\* CommonCompression::try_from(&compression).is_ok()
IsCommon(c) == c \in {"None", "LZ4", "ZSTD", "SNAPPY"}

\* from_compression of IntCompressor, BitmapEncoder and BinaryCompressor
from_compression(kind, c) ==
    IF IsCommon(c) THEN "Basic"
    ELSE CASE kind = "integer" -> IF c \in {"RLE", "Dict"} THEN "Extend" ELSE "OutOfSpec"
           [] kind = "boolean" -> IF c \in {"RLE", "OneValue"} THEN "Extend" ELSE "OutOfSpec"
           [] kind = "binary"  -> IF c = "Dict" THEN "Extend" ELSE "OutOfSpec"

LeafKinds == {"integer", "boolean", "binary"}

\* A tag byte in front of a page of a leaf: written from a codec, or any byte
TgInit(kind, written, byte) ==
    [ pc          |-> "start",
      kind        |-> kind,
      written     |-> written,      \* the codec the byte was made from, or "raw"
      byte        |-> byte,
      compression |-> "none",
      compressor  |-> "none" ]

\* let compression = Compression::from_codec(codec)?
FromCodec ==
    /\ tg.pc = "start"
    /\ LET c == from_codec(tg.byte)
       IN  tg' = [tg EXCEPT !.compression = c,
                            !.pc = IF c = "Err" THEN "done" ELSE "decoded"]
    /\ UNCHANGED <<opts, chunk, writer, rd, bin, dec, nr, sel, cm, vl, duo, bp, de, bd, dl, st, nv, fx>>

\* let compressor = ..::from_compression(compression)?
FromCompression ==
    /\ tg.pc = "decoded"
    /\ tg' = [tg EXCEPT !.compressor = from_compression(tg.kind, tg.compression),
                        !.pc = "done"]
    /\ UNCHANGED <<opts, chunk, writer, rd, bin, dec, nr, sel, cm, vl, duo, bp, de, bd, dl, st, nv, fx>>

InitCodec ==
    /\ \E kind \in LeafKinds :
        \/ \E c \in Codecs : tg = TgInit(kind, c, CodecOf(c))
        \/ \E t \in 0..255 : tg = TgInit(kind, "raw", t)
    /\ opts = Unused /\ chunk = Unused /\ writer = Unused /\ rd = Unused
    /\ bin = Unused /\ dec = Unused /\ nr = Unused /\ sel = Unused
    /\ cm = Unused /\ vl = Unused /\ duo = Unused
    /\ bp = Unused /\ de = Unused /\ bd = Unused
    /\ dl = Unused /\ st = Unused /\ nv = Unused /\ fx = Unused

NextCodec == FromCodec \/ FromCompression

SpecCodec == InitCodec /\ [][NextCodec]_vars

\* The typed codecs that apply to a leaf type: the encoders its
\* choose_compressor tries
AppliesTo(kind, c) == \E i \in 1..Len(Encoders(kind)) : Encoders(kind)[i] = c

\* C11: from_codec(u8::from(c)) = c for every codec c; a byte that is the
\* tag of no codec is an OutOfSpec error; and a known typed tag that does
\* not apply to the leaf's type is refused by from_compression with
\* OutOfSpec, while one that applies is accepted.
C11_TagsDecodeExactly ==
    tg.pc # "start" =>
        /\ tg.written # "raw" => tg.compression = tg.written
        /\ (\A c \in Codecs : CodecOf(c) # tg.byte) => tg.compression = "Err"
        /\ tg.compression = "Err" => (\A c \in Codecs : CodecOf(c) # tg.byte)
        /\ (tg.pc = "done" /\ tg.compression # "Err" /\ ~IsCommon(tg.compression)) =>
             (tg.compressor = "OutOfSpec" <=> ~AppliesTo(tg.kind, tg.compression))

\* Witness of C11: the tag of RLE in front of a byte-slice page, decoded by
\* from_codec and refused by from_compression
C11_Witness ==
    /\ tg.pc = "done"
    /\ tg.kind = "binary"
    /\ tg.written = "RLE"
    /\ tg.compression = "RLE"
    /\ tg.compressor = "OutOfSpec"

(***************************************************************************)
(* ColumnMeta::slice and ColumnMeta::skip_one_page                         *)
(***************************************************************************)
\* struct PageMeta
PageMetas == [ length : 1..MaxPageLen, num_values : 1..MaxItem ]

\* struct ColumnMeta, with at least one page
ColumnMetas ==
    { ColumnMetaOf(offset, pages) :
        offset \in {0, 8},
        pages \in UNION { [1..n -> PageMetas] : n \in 1..MaxPages } }

\* The outcome of a call: a meta, or the panic of a failed assertion or of
\* an out-of-range slice index
Returns(meta) == [ ok |-> TRUE, why |-> "", meta |-> meta ]
Panics(why)   == [ ok |-> FALSE, why |-> why, meta |-> ColumnMetaOf(0, <<>>) ]

slice_OffsetKept(m, start_page_index, end_page_index) ==
    IF start_page_index < Len(m.pages) /\ start_page_index <= end_page_index
       /\ end_page_index <= Len(m.pages)
    THEN Returns(ColumnMetaOf(m.offset, SubSeq(m.pages, start_page_index + 1, end_page_index)))
    ELSE Panics("assert")

\* ColumnMeta::slice: [start_page_index, end_page_index)
slice(m, start_page_index, end_page_index) ==
    IF ~(start_page_index < Len(m.pages)) THEN Panics("assert start_page_index < len")
    ELSE IF ~(end_page_index <= Len(m.pages)) THEN Panics("assert end_page_index <= len")
    ELSE IF start_page_index > end_page_index THEN Panics("slice index starts after end")
    ELSE LET offset == SumSeq([j \in 1..start_page_index |-> m.pages[j].length]) + m.offset
             pages  == SubSeq(m.pages, start_page_index + 1, end_page_index)
         IN  Returns(ColumnMetaOf(offset, pages))

\* ColumnMeta::skip_one_page
skip_one_page(m) == slice(m, 1, Len(m.pages))

CmInit(m) ==
    [ m    |-> m,        \* the meta the calls borrow
      m0   |-> m,        \* its value at construction
      last |-> [op |-> "new", s |-> 0, e |-> 0, out |-> Returns(m)] ]

MetaSlice ==
    /\ \E s \in 0..(Len(cm.m.pages) + 1), e \in 0..(Len(cm.m.pages) + 1) :
         cm' = [cm EXCEPT !.last = [op |-> "slice", s |-> s, e |-> e,
                                    out |-> slice(cm.m, s, e)]]
    /\ UNCHANGED <<opts, chunk, writer, rd, bin, dec, nr, sel, tg, vl, duo, bp, de, bd, dl, st, nv, fx>>

MetaSkipOnePage ==
    /\ cm' = [cm EXCEPT !.last = [op |-> "skip_one_page", s |-> 1, e |-> Len(cm.m.pages),
                                  out |-> skip_one_page(cm.m)]]
    /\ UNCHANGED <<opts, chunk, writer, rd, bin, dec, nr, sel, tg, vl, duo, bp, de, bd, dl, st, nv, fx>>

InitMeta ==
    /\ \E m \in ColumnMetas : cm = CmInit(m)
    /\ opts = Unused /\ chunk = Unused /\ writer = Unused /\ rd = Unused
    /\ bin = Unused /\ dec = Unused /\ nr = Unused /\ sel = Unused
    /\ tg = Unused /\ vl = Unused /\ duo = Unused
    /\ bp = Unused /\ de = Unused /\ bd = Unused
    /\ dl = Unused /\ st = Unused /\ nv = Unused /\ fx = Unused

NextMeta == MetaSlice \/ MetaSkipOnePage

SpecMeta == InitMeta /\ [][NextMeta]_vars

\* The stream position where page k (0-based) of the original meta begins;
\* for k = N, the position right after the last page
PageBeginOf(m, k) == m.offset + SumSeq([j \in 1..k |-> m.pages[j].length])

\* C12: for a meta m of N pages at offset o, slice(s, e) with 0 <= s < N and
\* s <= e <= N returns the pages m.pages[s..e) at offset o plus the lengths
\* of the pages before s, so that its offset plus its total_len is the
\* position where page e begins; m itself is left as it was.
C12_SliceIsSubRange ==
    (/\ cm.last.op = "slice"
     /\ cm.last.s < Len(cm.m0.pages)
     /\ cm.last.s <= cm.last.e
     /\ cm.last.e <= Len(cm.m0.pages)) =>
        /\ cm.last.out.ok
        /\ cm.last.out.meta.pages = SubSeq(cm.m0.pages, cm.last.s + 1, cm.last.e)
        /\ cm.last.out.meta.offset = PageBeginOf(cm.m0, cm.last.s)
        /\ cm.last.out.meta.offset + total_len(cm.last.out.meta) = PageBeginOf(cm.m0, cm.last.e)
        /\ cm.m = cm.m0

\* Witness of C12: a slice that starts after the first page and keeps at
\* least one page
C12_Witness ==
    /\ cm.last.op = "slice"
    /\ 0 < cm.last.s
    /\ cm.last.s < cm.last.e
    /\ cm.last.e <= Len(cm.m0.pages)
    /\ cm.last.out.ok
    /\ cm.last.out.meta.offset > cm.m0.offset

\* C13: on a meta of N >= 1 pages skip_one_page returns the meta of the
\* pages [1, N), the empty page list when N = 1, and no assertion fails.
C13_SkipOnePage ==
    cm.last.op = "skip_one_page" =>
        /\ cm.last.out.ok
        /\ cm.last.out.meta.pages = Tail(cm.m0.pages)
        /\ cm.last.out.meta.offset = PageBeginOf(cm.m0, 1)

(***************************************************************************)
(* The validity stream of the pages of one leaf: write_validity on the     *)
(* writer's side, read_validity under read_primitive on the reader's       *)
(***************************************************************************)
\* The pages of a leaf: 1..MaxLeafPages arrays of 1..MaxRows rows
LeafPages(is_optional) ==
    UNION { [1..c -> { Column(n, 1, 1, is_optional, vk) :
                         n \in 1..MaxRows, vk \in ValidityKinds }] :
            c \in 1..MaxLeafPages }

\* A validity stream in the layout read_validity parses: a zero length word
\* for a page without nulls, or the length word and one bit-packed run
validity_bytes(is_optional, validity, length) ==
    IF ~is_optional THEN <<>>
    ELSE IF validity = <<>> THEN U32le(0)
    ELSE LET def_levels == write_def_levels(TRUE, validity, length)
         IN  U32le(Len(def_levels)) \o def_levels

VlInit(is_nullable, pages) ==
    [ pc          |-> "write",
      is_nullable |-> is_nullable,
      pages       |-> pages,
      k           |-> 1,         \* the page at hand
      src         |-> "none",    \* where its validity stream came from
      stream      |-> <<>>,      \* the validity stream of the page at hand
      buf         |-> <<>>,      \* the page: validity stream, then values
      builder     |-> <<>>,      \* validity_builder of read_primitive
      hist        |-> <<>> ]     \* one record per page read

\* write_simple: write_validity, then the values of the page
WriteValidityPage ==
    /\ vl.pc = "write"
    /\ LET page   == vl.pages[vl.k]
           stream == write_validity(page.is_optional, page.validity, Len(page.values))
       IN  vl' = [vl EXCEPT !.pc = "read", !.src = "write_validity",
                            !.stream = stream,
                            !.buf = stream \o write_buffer(page.values, "None")]
    /\ UNCHANGED <<opts, chunk, writer, rd, bin, dec, nr, sel, tg, cm, duo, bp, de, bd, dl, st, nv, fx>>

\* A page whose validity stream has the layout read_validity parses
FeedValidityPage ==
    /\ vl.pc = "write"
    /\ LET page   == vl.pages[vl.k]
           stream == validity_bytes(page.is_optional, page.validity, Len(page.values))
       IN  vl' = [vl EXCEPT !.pc = "read", !.src = "bytes",
                            !.stream = stream,
                            !.buf = stream \o write_buffer(page.values, "None")]
    /\ UNCHANGED <<opts, chunk, writer, rd, bin, dec, nr, sel, tg, cm, duo, bp, de, bd, dl, st, nv, fx>>

\* The body of the page loop of read_primitive up to batch_read_buffer
ReadValidityPage ==
    /\ vl.pc = "read"
    /\ LET length == Len(vl.pages[vl.k].values)
           outs   == IF vl.is_nullable
                     THEN read_validity(vl.buf, 0, length, vl.builder)
                     ELSE {[ok |-> TRUE, pos |-> 0, builder |-> vl.builder]}
       IN  \E o \in outs :
             LET h == [ n        |-> length,
                        src      |-> vl.src,
                        stream   |-> vl.stream,
                        ok       |-> o.ok,
                        consumed |-> IF o.ok THEN o.pos ELSE 0,
                        pushed   |-> IF o.ok
                                     THEN SubSeq(o.builder, Len(vl.builder) + 1, Len(o.builder))
                                     ELSE <<>> ]
             IN  vl' = [vl EXCEPT !.hist = Append(@, h),
                                  !.builder = IF o.ok THEN o.builder ELSE @,
                                  !.k = IF o.ok THEN @ + 1 ELSE @,
                                  !.pc = IF ~o.ok THEN "failed"
                                         ELSE IF vl.k = Len(vl.pages) THEN "done"
                                         ELSE "write"]
    /\ UNCHANGED <<opts, chunk, writer, rd, bin, dec, nr, sel, tg, cm, duo, bp, de, bd, dl, st, nv, fx>>

InitValidity ==
    /\ \E is_nullable \in BOOLEAN :
         \E pages \in LeafPages(is_nullable) : vl = VlInit(is_nullable, pages)
    /\ opts = Unused /\ chunk = Unused /\ writer = Unused /\ rd = Unused
    /\ bin = Unused /\ dec = Unused /\ nr = Unused /\ sel = Unused
    /\ tg = Unused /\ cm = Unused /\ duo = Unused
    /\ bp = Unused /\ de = Unused /\ bd = Unused
    /\ dl = Unused /\ st = Unused /\ nv = Unused /\ fx = Unused

NextValidity == WriteValidityPage \/ FeedValidityPage \/ ReadValidityPage

SpecValidity == InitValidity /\ [][NextValidity]_vars

\* C14: the validity stream write_validity emits for a page is present
\* exactly when the field is nullable, it is one u32 length followed by that
\* many bytes of bitmap, and read_validity consumes exactly the bytes that
\* write_validity emitted.
C14_ValidityStreamLayout ==
    \A i \in 1..Len(vl.hist) :
        LET h == vl.hist[i]
        IN  h.src = "write_validity" =>
              /\ (Len(h.stream) > 0) <=> vl.is_nullable
              /\ vl.is_nullable =>
                   /\ Len(h.stream) >= 4
                   /\ FromU32le(SubSeq(h.stream, 1, 4)) = Len(h.stream) - 4
                   /\ h.ok
                   /\ h.consumed = Len(h.stream)

\* C15: after read_validity on a page of n values the builder has grown by
\* exactly n bits, all of them set when the length field of the stream is 0;
\* after the last page the accumulated validity has as many bits as the
\* pages have values.
C15_BuilderGrowsByPage ==
    /\ \A i \in 1..Len(vl.hist) :
         LET h == vl.hist[i]
         IN  (vl.is_nullable /\ h.src = "bytes" /\ h.ok) =>
               /\ Len(h.pushed) = h.n
               /\ FromU32le(SubSeq(h.stream, 1, 4)) = 0 =>
                    \A j \in 1..Len(h.pushed) : h.pushed[j]
    /\ (vl.pc = "done" /\ vl.is_nullable
        /\ \A i \in 1..Len(vl.hist) : vl.hist[i].src = "bytes") =>
         Len(vl.builder) = SumSeq([i \in 1..Len(vl.pages) |-> Len(vl.pages[i].values)])

(***************************************************************************)
(* Two NativeReaders, one per column, over the bytes of one stream, driven *)
(* in any interleaving (tests/it/io.rs: a Cursor over bytes.clone() each)  *)
(***************************************************************************)
DuoColumns == {"a", "b"}

\* The pages of a column: MaxLeafPages pages of one or two bytes
DuoPageMetas(c) ==
    [j \in 1..MaxLeafPages |->
        [length |-> 1 + ((j + (IF c = "a" THEN 0 ELSE 1)) % 2), num_values |-> j]]

\* What a call on one reader leaves of another reader: each NativeReader
\* owns its page_reader, its page_metas, its current_page and its scratch
OtherReader_SharedCursor(other, called) == [other EXCEPT !.pos = called.pos]

OtherReader(other, called) == other

\* The calls of the Iterator and of skip_page on a reader
DuoOps == {[name |-> "next", n |-> 0], [name |-> "skip_page", n |-> 0]}
          \cup {[name |-> "nth", n |-> n] : n \in {0, 1}}

ItemUnit == [kind |-> "Unit"]

\* One call on a reader: the reader after it and what it returned
Call(r, op) ==
    CASE op.name = "next" -> reader_next(r)
      [] op.name = "nth"  -> reader_nth(r, op.n)
      [] op.name = "skip_page" -> {[r |-> skip_page(r), item |-> ItemUnit]}

DuoInit(stream, start) ==
    LET metas_a == DuoPageMetas("a")
        metas_b == DuoPageMetas("b")
        begin_b == start + SumSeq([j \in 1..Len(metas_a) |-> metas_a[j].length])
    IN  [ first   |-> [a |-> NewReader(stream, start, metas_a),
                       b |-> NewReader(stream, begin_b, metas_b)],
          readers |-> [a |-> NewReader(stream, start, metas_a),
                       b |-> NewReader(stream, begin_b, metas_b)],
          ops     |-> [a |-> <<>>, b |-> <<>>],     \* the calls made on each
          items   |-> [a |-> <<>>, b |-> <<>>],     \* what they returned
          order   |-> <<>> ]                        \* the readers, in call order

DuoCall(x, op) ==
    /\ Len(duo.ops[x]) < MaxDuoCalls
    /\ \E o \in Call(duo.readers[x], op) :
         duo' = [duo EXCEPT
                   !.readers = [y \in DuoColumns |->
                                  IF y = x THEN o.r ELSE OtherReader(duo.readers[y], o.r)],
                   !.ops[x] = Append(@, op),
                   !.items[x] = Append(@, o.item),
                   !.order = Append(@, x)]
    /\ UNCHANGED <<opts, chunk, writer, rd, bin, dec, nr, sel, tg, cm, vl, bp, de, bd, dl, st, nv, fx>>

DuoNext == \E x \in DuoColumns : DuoCall(x, [name |-> "next", n |-> 0])

DuoNth == \E x \in DuoColumns, n \in {0, 1} : DuoCall(x, [name |-> "nth", n |-> n])

DuoSkipPage == \E x \in DuoColumns : DuoCall(x, [name |-> "skip_page", n |-> 0])

InitDuo ==
    /\ \E start \in {0, 8}, missing \in {0, 1, 4} :
         LET total == SumSeq([j \in 1..MaxLeafPages |-> DuoPageMetas("a")[j].length])
                      + SumSeq([j \in 1..MaxLeafPages |-> DuoPageMetas("b")[j].length])
             have  == start + total - Min(missing, total)
         IN  duo = DuoInit([i \in 1..have |-> i % 256], start)
    /\ opts = Unused /\ chunk = Unused /\ writer = Unused /\ rd = Unused
    /\ bin = Unused /\ dec = Unused /\ nr = Unused /\ sel = Unused
    /\ tg = Unused /\ cm = Unused /\ vl = Unused
    /\ bp = Unused /\ de = Unused /\ bd = Unused
    /\ dl = Unused /\ st = Unused /\ nv = Unused /\ fx = Unused

NextDuo == DuoNext \/ DuoNth \/ DuoSkipPage

SpecDuo == InitDuo /\ [][NextDuo]_vars

\* The runs of a reader that is driven alone through a sequence of calls:
\* the reader at the end and the results in order
RECURSIVE SoloRuns(_, _)
SoloRuns(r0, ops) ==
    IF ops = <<>> THEN {[r |-> r0, items |-> <<>>]}
    ELSE LET before == SoloRuns(r0, SubSeq(ops, 1, Len(ops) - 1))
         IN  UNION { { [r |-> o.r, items |-> Append(p.items, o.item)] :
                         o \in Call(p.r, Last(ops)) } : p \in before }

BITPACK_BLOCK_SIZE == 128

\* get_bits_needed: the bits of the largest value, 0 for 0
RECURSIVE get_bits_needed(_)
get_bits_needed(x) == IF x = 0 THEN 0 ELSE 1 + get_bits_needed(x \div 2)

\* util::bit_pack::align
align(n, block) == CeilDiv(n, block) * block

\* util::bit_pack::need_bytes and block_need_bytes
need_bytes(num_elems, width) == CeilDiv(num_elems * width, 8)
block_need_bytes(width) == need_bytes(BITPACK_BLOCK_SIZE, width)

\* Bit p (from 0) of the bit stream of a block: the values back to back,
\* `width` bits a value, least significant bit first
BlockBit(i_block, width, p) == (i_block[(p \div width) + 1] \div (2 ^ (p % width))) % 2

\* pack32 / pack64: a block of BITPACK_BLOCK_SIZE values packed into
\* block_need_bytes(width) bytes
pack(i_block, width) ==
    [b \in 1..block_need_bytes(width) |->
        LET p == (b - 1) * 8
        IN  BlockBit(i_block, width, p)
            + 2 * BlockBit(i_block, width, p + 1)
            + 4 * BlockBit(i_block, width, p + 2)
            + 8 * BlockBit(i_block, width, p + 3)
            + 16 * BlockBit(i_block, width, p + 4)
            + 32 * BlockBit(i_block, width, p + 5)
            + 64 * BlockBit(i_block, width, p + 6)
            + 128 * BlockBit(i_block, width, p + 7)]

\* Bit q (from 0) of the bytes of a packed block; 0 past their end
ByteBit(bytes, q) ==
    IF (q \div 8) + 1 <= Len(bytes) THEN (bytes[(q \div 8) + 1] \div (2 ^ (q % 8))) % 2 ELSE 0

\* unpack32 / unpack64: the block of values held by the bytes of a block
unpack(i_block, width) ==
    [i \in 1..BITPACK_BLOCK_SIZE |->
        SumSeq([j \in 1..width |-> ByteBit(i_block, (i - 1) * width + j - 1) * 2 ^ (j - 1)])]

\* IntegerStats::max of an array that is not empty
StatsMax(values) ==
    CHOOSE m \in {values[i] : i \in 1..Len(values)} :
        \A i \in 1..Len(values) : values[i] <= m

\* [T]::chunks / chunks_mut
RECURSIVE Chunks_of(_, _)
Chunks_of(s, size) ==
    IF s = <<>> THEN <<>>
    ELSE <<SubSeq(s, 1, Min(size, Len(s)))>>
         \o Chunks_of(SubSeq(s, Min(size, Len(s)) + 1, Len(s)), size)

Zeros(n) == [i \in 1..n |-> 0]

\* Bitpacking::compress on output: the width byte, the blocks that are full,
\* then what remains, padded with T::default().  chunks_mut(0) panics.
bp_compress(values, output) ==
    LET width        == get_bits_needed(StatsMax(values))
        n            == Len(values)
        aligned_len  == align(n, BITPACK_BLOCK_SIZE)
        bytes_needed == need_bytes(aligned_len, width)
        full         == n \div BITPACK_BLOCK_SIZE
        remain       == n % BITPACK_BLOCK_SIZE
    IN  IF block_need_bytes(width) = 0
        THEN [ok |-> FALSE, why |-> "panic: chunk size must be non-zero", output |-> output]
        ELSE LET blocks == [b \in 1..full |->
                              pack(SubSeq(values, (b - 1) * BITPACK_BLOCK_SIZE + 1,
                                          b * BITPACK_BLOCK_SIZE), width)]
                 last   == IF remain # 0
                           THEN pack(SubSeq(values, n - remain + 1, n)
                                     \o Zeros(BITPACK_BLOCK_SIZE - remain), width)
                           ELSE <<>>
             IN  [ok |-> TRUE, why |-> "",
                  output |-> output \o <<width>> \o Flatten(blocks) \o last]

\* Bitpacking::decompress: output grows by align(length) defaults, the
\* blocks of the input are unpacked over them pairwise, then output is cut
\* at start + length.  chunks(0) panics.
bp_decompress(input, length, output) ==
    LET width == input[1]
    IN  IF block_need_bytes(width) = 0
        THEN [ok |-> FALSE, why |-> "panic: chunk size must be non-zero", output |-> output]
        ELSE LET o_blocks == align(length, BITPACK_BLOCK_SIZE) \div BITPACK_BLOCK_SIZE
                 i_blocks == Chunks_of(Tail(input), block_need_bytes(width))
                 filled   == Flatten([b \in 1..o_blocks |->
                                        IF b <= Len(i_blocks)
                                        THEN unpack(i_blocks[b], width)
                                        ELSE Zeros(BITPACK_BLOCK_SIZE)])
             IN  [ok |-> TRUE, why |-> "", output |-> output \o SubSeq(filled, 1, length)]

\* Array lengths around the block size
BpLengths ==
    { b * BITPACK_BLOCK_SIZE + d :
        b \in 0..(MaxBlocks - 1), d \in {1, BITPACK_BLOCK_SIZE - 1, BITPACK_BLOCK_SIZE} }

\* An array of n values of 0..m whose largest is m
BpArray(n, m, k) == [i \in 1..n |-> ((i - 1) * k + m) % (m + 1)]

BpInit(values, sink, out) ==
    [ pc      |-> "start",
      values  |-> values,
      sink0   |-> sink,      \* the writer's output before compress
      sink    |-> sink,
      out0    |-> out,       \* the reader's output before decompress
      out     |-> out,
      why     |-> "" ]

BpCompress ==
    /\ bp.pc = "start"
    /\ LET c == bp_compress(bp.values, bp.sink)
       IN  bp' = [bp EXCEPT !.pc = IF c.ok THEN "compressed" ELSE "panic",
                            !.sink = c.output, !.why = c.why]
    /\ UNCHANGED <<opts, chunk, writer, rd, bin, dec, nr, sel, tg, cm, vl, duo, de, bd, dl, st, nv, fx>>

BpDecompress ==
    /\ bp.pc = "compressed"
    /\ LET input == SubSeq(bp.sink, Len(bp.sink0) + 1, Len(bp.sink))
           d     == bp_decompress(input, Len(bp.values), bp.out)
       IN  bp' = [bp EXCEPT !.pc = IF d.ok THEN "done" ELSE "panic",
                            !.out = d.output, !.why = d.why]
    /\ UNCHANGED <<opts, chunk, writer, rd, bin, dec, nr, sel, tg, cm, vl, duo, de, bd, dl, st, nv, fx>>

InitBp ==
    /\ \E n \in BpLengths, m \in 0..MaxBpVal, k \in {0, 1},
          sink \in {<<>>, <<14>>}, out \in {<<>>, <<7>>} :
         bp = BpInit(BpArray(n, m, k), sink, out)
    /\ opts = Unused /\ chunk = Unused /\ writer = Unused /\ rd = Unused
    /\ bin = Unused /\ dec = Unused /\ nr = Unused /\ sel = Unused
    /\ tg = Unused /\ cm = Unused /\ vl = Unused /\ duo = Unused
    /\ de = Unused /\ bd = Unused
    /\ dl = Unused /\ st = Unused /\ nv = Unused /\ fx = Unused

NextBp == BpCompress \/ BpDecompress

SpecBp == InitBp /\ [][NextBp]_vars

\* C17: for every array A of n >= 1 non-negative integers, the all-zero
\* array of width 0 included, compress emits one width byte and ceil(n/128)
\* packed blocks, and decompress of that payload with length n appends
\* exactly A to the output.
C17_BitpackRoundTrip ==
    /\ bp.pc # "panic"
    /\ bp.pc \in {"compressed", "done"} =>
         LET width == get_bits_needed(StatsMax(bp.values))
         IN  /\ bp.sink[Len(bp.sink0) + 1] = width
             /\ Len(bp.sink) - Len(bp.sink0)
                  = 1 + CeilDiv(Len(bp.values), BITPACK_BLOCK_SIZE) * block_need_bytes(width)
             /\ SubSeq(bp.sink, 1, Len(bp.sink0)) = bp.sink0
    /\ bp.pc = "done" => bp.out = bp.out0 \o bp.values

(***************************************************************************)
(* DictEncoder and DictMap (compression/integer/dict.rs and                *)
(* compression/dict.rs): push, push_last_index, push_index,                *)
(* compress_indices, decompress_indices                                    *)
(***************************************************************************)
\* DictMap::entry_key: the key of the entry equal to the value, which is
\* pushed on sets when there is none
entry_key(sets, value) ==
    IF \E k \in 1..Len(sets) : sets[k] = value
    THEN [key |-> (CHOOSE k \in 1..Len(sets) : sets[k] = value) - 1, sets |-> sets]
    ELSE [key |-> Len(sets), sets |-> Append(sets, value)]

\* DictEncoder::push
push(e, value) ==
    LET k == entry_key(e.sets, value)
    IN  [ok |-> TRUE, sets |-> k.sets, indices |-> Append(e.indices, k.key)]

\* DictEncoder::push_last_index (compression/integer/dict.rs):
\* indices.last().cloned().unwrap()
push_last_index(e) ==
    IF e.indices = <<>>
    THEN [ok |-> FALSE, sets |-> e.sets, indices |-> e.indices]
    ELSE [ok |-> TRUE, sets |-> e.sets, indices |-> Append(e.indices, Last(e.indices))]

\* DictEncoder::push_index (compression/dict.rs): 0 when there is no index
push_index(e) ==
    [ok |-> TRUE, sets |-> e.sets,
     indices |-> Append(e.indices, IF e.indices = <<>> THEN 0 ELSE Last(e.indices))]

\* <&[u32; 128]>::try_from(i_block).unwrap() on every chunk
AllBlocksFull(blocks) == \A b \in 1..Len(blocks) : Len(blocks[b]) = BITPACK_BLOCK_SIZE

\* DictEncoder::compress_indices on an encoder that holds an entry
compress_indices(e, output) ==
    LET width        == get_bits_needed(Len(e.sets) - 1)
        bytes_needed == need_bytes(Len(e.indices), width)
        i_blocks     == Chunks_of(e.indices, BITPACK_BLOCK_SIZE)
    IN  IF block_need_bytes(width) = 0
        THEN [ok |-> FALSE, why |-> "panic: chunk size must be non-zero", output |-> output]
        ELSE IF ~AllBlocksFull(i_blocks)
        THEN [ok |-> FALSE, why |-> "panic: try_into().unwrap()", output |-> output]
        ELSE [ok |-> TRUE, why |-> "",
              output |-> output \o Flatten([b \in 1..Len(i_blocks) |-> pack(i_blocks[b], width)])]

\* DictEncoder::decompress_indices.  A last block of fewer than
\* BITPACK_BLOCK_SIZE indices takes the first values of the unpacked block.
decompress_indices(input, length, unique_num) ==
    LET width    == get_bits_needed(unique_num - 1)
        o_blocks == Chunks_of(Zeros(length), BITPACK_BLOCK_SIZE)
    IN  IF block_need_bytes(width) = 0
        THEN [ok |-> FALSE, why |-> "panic: chunk size must be non-zero", indices |-> <<>>]
        ELSE LET i_blocks == Chunks_of(input, block_need_bytes(width))
             IN  [ok |-> TRUE, why |-> "",
                  indices |-> Flatten([b \in 1..Len(o_blocks) |->
                                 IF b <= Len(i_blocks)
                                 THEN SubSeq(unpack(i_blocks[b], width), 1, Len(o_blocks[b]))
                                 ELSE o_blocks[b]])]

\* An encoder, the calls made on it and what became of its index stream
DeInit(indices, sets) ==
    [ pc       |-> "pushing",
      sets     |-> sets,         \* interner.sets
      indices  |-> indices,
      base     |-> Len(indices), \* indices the encoder was built with
      log      |-> <<>>,         \* the calls, in order
      sent     |-> <<>>,         \* the indices when compress_indices was called
      output   |-> <<>>,
      decoded  |-> <<>>,
      why      |-> "" ]

DeApply(op, value, o) ==
    IF o.ok
    THEN [de EXCEPT !.sets = o.sets, !.indices = o.indices,
                    !.log = Append(@, [op |-> op, value |-> value])]
    ELSE [de EXCEPT !.pc = "panic", !.why = "panic: " \o op,
                    !.log = Append(@, [op |-> op, value |-> value])]

MorePushes == de.pc = "pushing" /\ Len(de.log) < MaxPushes

DePush ==
    /\ MorePushes
    /\ \E v \in 0..MaxItem : de' = DeApply("push", v, push(de, v))
    /\ UNCHANGED <<opts, chunk, writer, rd, bin, dec, nr, sel, tg, cm, vl, duo, bp, bd, dl, st, nv, fx>>

DePushLastIndex ==
    /\ MorePushes
    /\ de' = DeApply("push_last_index", 0, push_last_index(de))
    /\ UNCHANGED <<opts, chunk, writer, rd, bin, dec, nr, sel, tg, cm, vl, duo, bp, bd, dl, st, nv, fx>>

DePushIndex ==
    /\ MorePushes
    /\ de' = DeApply("push_index", 0, push_index(de))
    /\ UNCHANGED <<opts, chunk, writer, rd, bin, dec, nr, sel, tg, cm, vl, duo, bp, bd, dl, st, nv, fx>>

DeCompressIndices ==
    /\ de.pc = "pushing"
    /\ de.sets # <<>>
    /\ de.indices # <<>>
    /\ LET c == compress_indices(de, <<>>)
       IN  de' = [de EXCEPT !.pc = IF c.ok THEN "compressed" ELSE "panic",
                            !.sent = de.indices, !.output = c.output, !.why = c.why]
    /\ UNCHANGED <<opts, chunk, writer, rd, bin, dec, nr, sel, tg, cm, vl, duo, bp, bd, dl, st, nv, fx>>

DeDecompressIndices ==
    /\ de.pc = "compressed"
    /\ LET d == decompress_indices(de.output, Len(de.sent), Len(de.sets))
       IN  de' = [de EXCEPT !.pc = IF d.ok THEN "done" ELSE "panic",
                            !.decoded = d.indices, !.why = d.why]
    /\ UNCHANGED <<opts, chunk, writer, rd, bin, dec, nr, sel, tg, cm, vl, duo, bp, bd, dl, st, nv, fx>>

\* DictEncoder::with_capacity, or DictEncoder::new(indices, sets) over n
\* indices of u entries
InitDict ==
    /\ \/ de = DeInit(<<>>, <<>>)
       \/ \E n \in BpLengths, u \in 1..MaxUnique, k \in {0, 1} :
            de = DeInit([i \in 1..n |-> ((i - 1) * k + u - 1) % u], [i \in 1..u |-> i - 1])
    /\ opts = Unused /\ chunk = Unused /\ writer = Unused /\ rd = Unused
    /\ bin = Unused /\ dec = Unused /\ nr = Unused /\ sel = Unused
    /\ tg = Unused /\ cm = Unused /\ vl = Unused /\ duo = Unused
    /\ bp = Unused /\ bd = Unused
    /\ dl = Unused /\ st = Unused /\ nv = Unused /\ fx = Unused

NextDict ==
    DePush \/ DePushLastIndex \/ DePushIndex \/ DeCompressIndices \/ DeDecompressIndices

SpecDict == InitDict /\ [][NextDict]_vars

\* The values pushed on a fresh encoder, in call order
Pushed == SelectSeq(de.log, LAMBDA c : c.op = "push")

\* The values of a sequence of push calls in order of first occurrence
RECURSIVE FirstOccurrences(_)
FirstOccurrences(calls) ==
    IF calls = <<>> THEN <<>>
    ELSE LET before == FirstOccurrences(SubSeq(calls, 1, Len(calls) - 1))
             v      == Last(calls).value
         IN  IF \E k \in 1..Len(before) : before[k] = v THEN before ELSE Append(before, v)

\* C18: after any sequence of push(v) and push_last_index() calls on a
\* dictionary encoder, get_sets() is pairwise distinct and in order of first
\* occurrence, every index is smaller than the number of entries, the index
\* of a push(v) designates an entry equal to v, a push_last_index() records
\* the index of the call just before it, and there is one index per call.
C18_DictEncoderIndices ==
    (de.base = 0 /\ de.pc \in {"pushing", "panic"} /\ de.sent = <<>>) =>
        /\ de.pc # "panic"
        /\ Len(de.indices) = Len(de.log)
        /\ \A j, k \in 1..Len(de.sets) : de.sets[j] = de.sets[k] => j = k
        /\ de.sets = FirstOccurrences(Pushed)
        /\ \A i \in 1..Len(de.indices) : de.indices[i] < Len(de.sets)
        /\ \A i \in 1..Len(de.indices) :
             /\ de.log[i].op = "push" => de.sets[de.indices[i] + 1] = de.log[i].value
             /\ de.log[i].op # "push" => (i > 1 /\ de.indices[i] = de.indices[i - 1])

\* C19: for every stream of n >= 1 indices over u >= 1 entries,
\* decompress_indices(compress_indices(indices), n, u) is the stream again,
\* whether or not n is a multiple of the block of 128, and the stream is
\* packed at the least width that holds u - 1.
C19_IndicesRoundTrip ==
    de.sent # <<>> =>
        /\ de.pc # "panic"
        /\ Len(de.output) = CeilDiv(Len(de.sent), BITPACK_BLOCK_SIZE)
                              * block_need_bytes(get_bits_needed(Len(de.sets) - 1))
        /\ de.pc = "done" => de.decoded = de.sent

(***************************************************************************)
(* Dict::decompress of a byte-slice page into the caller's offsets and     *)
(* values (compression/binary/dict.rs)                                     *)
(***************************************************************************)
\* u64::to_le_bytes of a length below 2^32
U64le(x) == U32le(x) \o U32le(0)

\* Entry k of a dictionary of byte-slices: k % (MaxItem + 1) bytes
DictEntry(k) == [j \in 1..(k % (MaxItem + 1)) |-> 97 + k]

\* The page Dict::compress writes: the index stream under its header, the
\* number of entries, then every entry as its length and its bytes
DictPage(indices, sets) ==
    <<CodecOf("None")>> \o U32le(4 * Len(indices)) \o U32le(4 * Len(indices))
    \o I32Bytes(indices)
    \o U32le(Len(sets))
    \o Flatten([k \in 1..Len(sets) |-> U64le(Len(sets[k])) \o sets[k]])

\* decompress_integer on an index stream stored with the None codec: the
\* header, then `length` little-endian indices; the input moves past them
decompress_integer(input, length) ==
    LET h == read_compress_header(input)
    IN  IF ~h.ok THEN Failed("eof")
        ELSE IF from_codec(h.codec) # "None" THEN Failed("OutOfSpec")
        ELSE IF ~Avail(input, 9, h.compressed_size) \/ h.compressed_size < 4 * length
        THEN Failed("eof")
        ELSE [ok |-> TRUE, indices |-> BytesToI32(Bytes(input, 9, 4 * length)),
              pos |-> 9 + h.compressed_size]

\* The loop over the dictionary: read_u64 a length, the check that the
\* input holds as many bytes, data_offsets.push, consume
RECURSIVE read_entries(_, _, _, _)
read_entries(input, pos, remaining, data) ==
    IF remaining = 0 THEN [ok |-> TRUE, data |-> data, pos |-> pos]
    ELSE IF ~Avail(input, pos, 8) THEN Failed("eof")
    ELSE LET len  == FromU32le(Bytes(input, pos, 4))
             high == FromU32le(Bytes(input, pos + 4, 4))
         IN  IF high # 0 \/ ~Avail(input, pos + 8, len)
             THEN Failed("data size is less than len")
             ELSE read_entries(input, pos + 8 + len, remaining - 1,
                               Append(data, Bytes(input, pos + 8, len)))

\* Dict::decompress up to last_offset: the indices and the dictionary
read_dictionary(input, length) ==
    LET d == decompress_integer(input, length)
    IN  IF ~d.ok THEN d
        ELSE IF ~Avail(input, d.pos, 4) THEN Failed("eof")
        ELSE LET data_size == FromU32le(Bytes(input, d.pos, 4))
                 e         == read_entries(input, d.pos + 4, data_size, <<>>)
             IN  IF ~e.ok THEN e
                 ELSE [ok |-> TRUE, indices |-> d.indices, data |-> e.data]

first_last_offset_Zero(offsets) == 0

\* last_offset before the loop over the indices
first_last_offset(offsets) == IF offsets = <<>> THEN 0 ELSE Last(offsets)

\* The loop over the indices: the entry's bytes on values, last_offset
\* moved by its length and pushed on offsets.  data_offsets[i + 1] is out of
\* range for an index that is no entry: the loop panics there.
RECURSIVE append_entries(_, _, _, _, _)
append_entries(indices, data, last_offset, offsets, values) ==
    IF indices = <<>> THEN [result |-> "Ok", offsets |-> offsets, values |-> values]
    ELSE IF Head(indices) >= Len(data)
    THEN [result |-> "panic", offsets |-> offsets, values |-> values]
    ELSE LET entry == data[Head(indices) + 1]
         IN  append_entries(Tail(indices), data, last_offset + Len(entry),
                            Append(offsets, last_offset + Len(entry)),
                            values \o entry)

BdInit(indices, sets, cut, offsets, values) ==
    [ pc       |-> "start",
      indices  |-> indices,       \* the indices and entries the page was
      sets     |-> sets,          \* written from
      input    |-> SubSeq(DictPage(indices, sets), 1,
                          Len(DictPage(indices, sets)) - cut),
      length   |-> Len(indices),
      offsets0 |-> offsets,       \* the caller's buffers at the call
      values0  |-> values,
      offsets  |-> offsets,
      values   |-> values,
      decoded  |-> <<>>,          \* the local indices
      data     |-> <<>>,          \* the local dictionary
      result   |-> "none" ]

\* decompress_integer and the dictionary: an error returns before the
\* caller's buffers are touched
BdReadDictionary ==
    /\ bd.pc = "start"
    /\ LET r == read_dictionary(bd.input, bd.length)
       IN  bd' = IF r.ok
                 THEN [bd EXCEPT !.pc = "append", !.decoded = r.indices, !.data = r.data]
                 ELSE [bd EXCEPT !.pc = "done", !.result = "Err"]
    /\ UNCHANGED <<opts, chunk, writer, rd, bin, dec, nr, sel, tg, cm, vl, duo, bp, de, dl, st, nv, fx>>

\* The initial offset of an empty offsets buffer, then the loop
BdAppendEntries ==
    /\ bd.pc = "append"
    /\ LET last_offset == first_last_offset(bd.offsets)
           offsets     == IF bd.offsets = <<>> THEN <<0>> ELSE bd.offsets
           r           == append_entries(bd.decoded, bd.data, last_offset, offsets, bd.values)
       IN  bd' = [bd EXCEPT !.pc = "done", !.result = r.result,
                            !.offsets = r.offsets, !.values = r.values]
    /\ UNCHANGED <<opts, chunk, writer, rd, bin, dec, nr, sel, tg, cm, vl, duo, bp, de, dl, st, nv, fx>>

InitBinaryDict ==
    /\ \E u \in 1..MaxUnique, n \in 0..MaxRows, cut \in Cuts,
          buffers \in { <<<<>>, <<>>>>, <<<<0>>, <<>>>>, <<<<0, 2>>, <<120, 121>>>> } :
         \E indices \in [1..n -> 0..u] :
            bd = BdInit(indices, [k \in 1..u |-> DictEntry(k)], cut, buffers[1], buffers[2])
    /\ opts = Unused /\ chunk = Unused /\ writer = Unused /\ rd = Unused
    /\ bin = Unused /\ dec = Unused /\ nr = Unused /\ sel = Unused
    /\ tg = Unused /\ cm = Unused /\ vl = Unused /\ duo = Unused
    /\ bp = Unused /\ de = Unused
    /\ dl = Unused /\ st = Unused /\ nv = Unused /\ fx = Unused

NextBinaryDict == BdReadDictionary \/ BdAppendEntries

SpecBinaryDict == InitBinaryDict /\ [][NextBinaryDict]_vars

\* C20: Dict::decompress leaves the offsets and the value bytes the caller's
\* buffers held as they were; it pushes an initial 0 only on an empty
\* offsets buffer, then one offset per decoded index, each the offset before
\* it plus the length of the entry the index names, going on from the last
\* offset that was there, and the bytes of those entries on values, in order.
C20_DictAppendsOnly ==
    /\ Len(bd.offsets) >= Len(bd.offsets0)
    /\ SubSeq(bd.offsets, 1, Len(bd.offsets0)) = bd.offsets0
    /\ Len(bd.values) >= Len(bd.values0)
    /\ SubSeq(bd.values, 1, Len(bd.values0)) = bd.values0
    /\ (bd.pc = "done" /\ bd.result = "Ok") =>
         LET base == IF bd.offsets0 = <<>> THEN 1 ELSE Len(bd.offsets0)
         IN  /\ Len(bd.offsets) = base + Len(bd.indices)
             /\ bd.offsets0 = <<>> => bd.offsets[1] = 0
             /\ \A i \in 1..Len(bd.indices) :
                  bd.offsets[base + i]
                    = bd.offsets[base + i - 1] + Len(bd.sets[bd.indices[i] + 1])
             /\ bd.values = bd.values0
                  \o Flatten([i \in 1..Len(bd.indices) |-> bd.sets[bd.indices[i] + 1]])

\* Witness of C20: a page of at least two indices decoded behind offsets and
\* values that were already there
C20_Witness ==
    /\ bd.pc = "done"
    /\ bd.result = "Ok"
    /\ bd.values0 # <<>>
    /\ Len(bd.indices) >= 2
    /\ Len(bd.values) > Len(bd.values0)
    /\ Last(bd.offsets) > Last(bd.offsets0)

(***************************************************************************)
(* gen_stats of an integer array (compression/integer/mod.rs)              *)
(***************************************************************************)
\* The locals and the stats of gen_stats before the loop: T::default() is 0;
\* a float is the pair <<numerator, denominator>> of the division that makes it
StatsStart(array) ==
    [ tuple_count     |-> Len(array.values),
      is_sorted       |-> TRUE,
      min             |-> 0,
      max             |-> 0,
      distinct_values |-> {},
      unique_count    |-> 0,
      average_run_length |-> <<0, 1>>,
      last_value      |-> 0,
      run_count       |-> 0 ]

\* One turn of the loop of gen_stats, on value i (from 1)
stats_step(s, array, i) ==
    LET current_value == array.values[i]
        valid         == IsValid(array, i)
    IN  [s EXCEPT
           !.is_sorted = IF valid /\ current_value < s.last_value THEN FALSE ELSE @,
           !.run_count = IF valid /\ s.last_value # current_value THEN @ + 1 ELSE @,
           !.last_value = IF valid /\ s.last_value # current_value THEN current_value ELSE @,
           !.distinct_values = @ \cup {current_value},
           !.max = IF current_value > s.max THEN current_value ELSE @,
           !.min = IF ~(current_value > s.max) /\ current_value < s.min
                   THEN current_value ELSE @]

\* gen_stats: the loop over all the values
RECURSIVE stats_loop(_, _, _)
stats_loop(s, array, i) ==
    IF i > Len(array.values) THEN s ELSE stats_loop(stats_step(s, array, i), array, i + 1)

\* The end of gen_stats: unique_count and average_run_length, the quotient
\* array.len() as f64 / run_count as f64
stats_finish(s, array) ==
    [s EXCEPT !.unique_count = Cardinality(s.distinct_values),
              !.average_run_length = <<Len(array.values), s.run_count>>]

gen_stats(array) == stats_finish(stats_loop(StatsStart(array), array, 1), array)

\* Integer arrays of up to MaxRows values of -1..MaxItem, without validity
\* or with any validity
StatArrays ==
    UNION { { [values |-> v, validity |-> b] :
                v \in [1..n -> -1..MaxItem],
                b \in {<<>>} \cup [1..n -> BOOLEAN] } : n \in 0..MaxRows }

StInit(array) == [ pc |-> "loop", array |-> array, i |-> 1, stats |-> StatsStart(array) ]

GenStatsStep ==
    /\ st.pc = "loop"
    /\ st.i <= Len(st.array.values)
    /\ st' = [st EXCEPT !.stats = stats_step(st.stats, st.array, st.i), !.i = @ + 1]
    /\ UNCHANGED <<opts, chunk, writer, rd, bin, dec, nr, sel, tg, cm, vl, duo, bp, de, bd, dl, nv, fx>>

GenStatsReturn ==
    /\ st.pc = "loop"
    /\ st.i > Len(st.array.values)
    /\ st' = [st EXCEPT !.pc = "done", !.stats = stats_finish(st.stats, st.array)]
    /\ UNCHANGED <<opts, chunk, writer, rd, bin, dec, nr, sel, tg, cm, vl, duo, bp, de, bd, dl, nv, fx>>

InitStats ==
    /\ \E array \in StatArrays : st = StInit(array)
    /\ opts = Unused /\ chunk = Unused /\ writer = Unused /\ rd = Unused
    /\ bin = Unused /\ dec = Unused /\ nr = Unused /\ sel = Unused
    /\ tg = Unused /\ cm = Unused /\ vl = Unused /\ duo = Unused
    /\ bp = Unused /\ de = Unused /\ bd = Unused
    /\ dl = Unused /\ nv = Unused /\ fx = Unused

NextStats == GenStatsStep \/ GenStatsReturn

SpecStats == InitStats /\ [][NextStats]_vars

\* The valid values of an array, in order
ValidValues(array) ==
    SelectSeq([i \in 1..Len(array.values) |-> [v |-> array.values[i], ok |-> IsValid(array, i)]],
              LAMBDA e : e.ok)

\* The maximal runs of equal adjacent elements of a sequence
RunsOf(s) ==
    IF s = <<>> THEN 0 ELSE 1 + Cardinality({i \in 2..Len(s) : s[i].v # s[i - 1].v})

\* C23: gen_stats sets is_sorted exactly when the valid values of the array
\* are non-decreasing, whatever the sign of the first valid value and the
\* values of the null slots.
C23_IsSortedExact ==
    st.pc = "done" =>
        LET valid == ValidValues(st.array)
        IN  st.stats.is_sorted <=> (\A i \in 1..(Len(valid) - 1) : valid[i].v <= valid[i + 1].v)

\* C24: for an array with at least one valid value, the run count that
\* gen_stats divides tuple_count by is the number of maximal runs of equal
\* adjacent valid values, hence at least 1, also when the first valid value
\* is 0.
C24_RunCountExact ==
    (st.pc = "done" /\ ValidValues(st.array) # <<>>) =>
        /\ st.stats.average_run_length[2] = RunsOf(ValidValues(st.array))
        /\ st.stats.average_run_length[2] >= 1

(***************************************************************************)
(* The Delta codec (compression/integer/delta.rs, traits.rs)               *)
(***************************************************************************)
\* Integer types of IntegerType: two of the macro's fixed-width types with
\* their real ranges, and the two wide types
IntTypes == {"u8", "i8", "i128", "i256"}

\* std::mem::size_of::<T>(), in bytes
size_of(T) == CASE T = "u8" -> 1 [] T = "i8" -> 1 [] T = "i128" -> 16 [] T = "i256" -> 32

IsSigned(T) == T # "u8"

\* The values of T: the wide types are used far from their limits
InRange(T, x) ==
    CASE T = "u8" -> x >= 0 /\ x <= 255
      [] T = "i8" -> x >= -128 /\ x <= 127
      [] OTHER -> TRUE

\* Two's complement wrap of x into T
Wrap(T, x) ==
    CASE T = "u8" -> x % 256
      [] T = "i8" -> ((x + 128) % 256) - 128
      [] OTHER -> x

\* The builds: overflow checks on (debug) or off (release)
Builds == {"debug", "release"}

\* The result of an arithmetic operator of T on the exact result x
Arith(T, build, x) ==
    IF InRange(T, x) THEN [ok |-> TRUE, v |-> x, overflow |-> FALSE]
    ELSE IF build = "debug" THEN Failed("panic:overflow")
    ELSE [ok |-> TRUE, v |-> Wrap(T, x), overflow |-> TRUE]

\* IntegerType::sub: self - other, unimplemented!() for i256
sub(T, build, a, b) ==
    IF T = "i256" THEN Failed("panic:unimplemented") ELSE Arith(T, build, a - b)

\* IntegerType::add: self + other, unimplemented!() for i256
add(T, build, a, b) ==
    IF T = "i256" THEN Failed("panic:unimplemented") ELSE Arith(T, build, a + b)

\* RawNative::as_bytes: the size_of::<T>() little-endian bytes of a value
\* whose magnitude fits the first byte
TBytes(T, v) ==
    [k \in 1..size_of(T) |-> IF k = 1 THEN v % 256 ELSE IF v < 0 THEN 255 ELSE 0]

\* T::from_le_bytes
FromTBytes(T, b) ==
    IF IsSigned(T) /\ b[Len(b)] >= 128 THEN b[1] - 256 ELSE b[1]

\* The nested integer page: the page header, then the values stored with the
\* None codec
compress_integer(T, values) ==
    <<CodecOf("None")>> \o U32le(size_of(T) * Len(values)) \o U32le(size_of(T) * Len(values))
    \o Flatten([i \in 1..Len(values) |-> TBytes(T, values[i])])

\* Reads back length values of a nested integer page
decompress_integer_of(T, input, length) ==
    LET h == read_compress_header(input)
    IN  IF ~h.ok THEN Failed("eof")
        ELSE IF from_codec(h.codec) # "None" THEN Failed("OutOfSpec")
        ELSE IF ~Avail(input, 9, h.compressed_size) \/ h.compressed_size < size_of(T) * length
        THEN Failed("eof")
        ELSE [ok |-> TRUE,
              values |-> [i \in 1..length |->
                            FromTBytes(T, Bytes(input, 9 + size_of(T) * (i - 1), size_of(T)))]]

\* Delta::compress_ratio: f64::MAX or 0.0
delta_compress_ratio(T, stats) ==
    IF size_of(T) # 32 /\ stats.is_sorted /\ stats.tuple_count > 1 THEN "f64::MAX" ELSE "0.0"

\* Delta::compress on the values of the array (array.value(i) reads the
\* slot, valid or not)
delta_compress(T, build, array) ==
    LET n  == Len(array.values)
        ds == [i \in 1..(n - 1) |-> sub(T, build, array.values[i + 1], array.values[i])]
        bad == {i \in 1..(n - 1) : ~ds[i].ok}
    IN  IF n = 0 THEN Failed("panic:assert")
        ELSE IF bad # {} THEN Failed(ds[CHOOSE i \in bad : \A j \in bad : i <= j].why)
        ELSE [ok |-> TRUE,
              delta |-> [i \in 1..(n - 1) |-> ds[i].v],
              overflow |-> \E i \in 1..(n - 1) : ds[i].overflow,
              output |-> TBytes(T, array.values[1])
                         \o compress_integer(T, [i \in 1..(n - 1) |-> ds[i].v])]

\* The last loop of Delta::decompress: output.push(output[i + start].add(&delta[i]))
RECURSIVE delta_sums(_, _, _, _, _, _)
delta_sums(T, build, output, start, delta, i) ==
    IF i > Len(delta) THEN [ok |-> TRUE, output |-> output, overflow |-> FALSE]
    ELSE LET s == add(T, build, output[i + start], delta[i])
         IN  IF ~s.ok THEN s
             ELSE LET rest == delta_sums(T, build, Append(output, s.v), start, delta, i + 1)
                  IN  IF ~rest.ok THEN rest
                      ELSE [rest EXCEPT !.overflow = @ \/ s.overflow]

\* Delta::decompress of length values onto output
delta_decompress(T, build, input, length, output) ==
    IF Len(input) < size_of(T) THEN Failed("panic:slice")
    ELSE LET first_value == FromTBytes(T, Bytes(input, 0, size_of(T)))
             nested == decompress_integer_of(T, SubSeq(input, size_of(T) + 1, Len(input)),
                                             length - 1)
         IN  IF ~nested.ok THEN nested
             ELSE delta_sums(T, build, Append(output, first_value), Len(output),
                             nested.values, 1)

\* Values of a type: its limits and the values next to 0
SampleValues(T) ==
    CASE T = "u8" -> {0, 1, 255}
      [] T = "i8" -> {-128, 0, 127}
      [] OTHER -> {-1, 0, 1}

DeltaArrays(T) ==
    UNION { { [values |-> v, validity |-> b] :
                v \in [1..n -> SampleValues(T)],
                b \in {<<>>} \cup [1..n -> BOOLEAN] } : n \in 0..MaxRows }

\* What the output vector holds before decompress
PriorOutputs == {<<>>, <<1>>, <<0, 1>>}

DlInit(T, build, array) ==
    [ pc |-> "start", T |-> T, build |-> build, array |-> array,
      ratio |-> "0.0", payload |-> <<>>, compressed |-> Failed("none"),
      prior |-> <<>>, decoded |-> Failed("none") ]

\* gen_stats, then Delta::compress_ratio on the statistics
DeltaCompressRatio ==
    /\ dl.pc = "start"
    /\ dl' = [dl EXCEPT !.pc = "rated",
                        !.ratio = delta_compress_ratio(dl.T, gen_stats(dl.array))]
    /\ UNCHANGED <<opts, chunk, writer, rd, bin, dec, nr, sel, tg, cm, vl, duo, bp, de, bd, st, nv, fx>>

DeltaCompress ==
    /\ dl.pc = "rated"
    /\ LET c == delta_compress(dl.T, dl.build, dl.array)
       IN  dl' = [dl EXCEPT !.pc = IF c.ok THEN "compressed" ELSE "panicked",
                            !.compressed = c,
                            !.payload = IF c.ok THEN c.output ELSE <<>>]
    /\ UNCHANGED <<opts, chunk, writer, rd, bin, dec, nr, sel, tg, cm, vl, duo, bp, de, bd, st, nv, fx>>

DeltaDecompress ==
    /\ dl.pc = "compressed"
    /\ \E prior \in PriorOutputs :
         dl' = [dl EXCEPT !.pc = "decompressed",
                          !.prior = prior,
                          !.decoded = delta_decompress(dl.T, dl.build, dl.payload,
                                                       Len(dl.array.values), prior)]
    /\ UNCHANGED <<opts, chunk, writer, rd, bin, dec, nr, sel, tg, cm, vl, duo, bp, de, bd, st, nv, fx>>

InitDelta ==
    /\ \E T \in IntTypes, build \in Builds :
         \E array \in DeltaArrays(T) : dl = DlInit(T, build, array)
    /\ opts = Unused /\ chunk = Unused /\ writer = Unused /\ rd = Unused
    /\ bin = Unused /\ dec = Unused /\ nr = Unused /\ sel = Unused
    /\ tg = Unused /\ cm = Unused /\ vl = Unused /\ duo = Unused
    /\ bp = Unused /\ de = Unused /\ bd = Unused
    /\ st = Unused /\ nv = Unused /\ fx = Unused

NextDelta == DeltaCompressRatio \/ DeltaCompress \/ DeltaDecompress

SpecDelta == InitDelta /\ [][NextDelta]_vars

\* C21: for every non-empty integer array A of n values, Delta.compress
\* emits A[0] followed by one nested integer page over the n - 1 first
\* differences, and Delta.decompress of that payload with length n appends
\* exactly A to the output, also when the output already holds values.
C21_DeltaRoundTrip ==
    /\ (dl.pc \in {"compressed", "panicked"} /\ Len(dl.array.values) > 0) =>
         /\ dl.compressed.ok
         /\ dl.payload = TBytes(dl.T, dl.array.values[1])
                         \o compress_integer(dl.T,
                              [i \in 1..(Len(dl.array.values) - 1) |->
                                 dl.array.values[i + 1] - dl.array.values[i]])
    /\ dl.pc = "decompressed" =>
         /\ dl.decoded.ok
         /\ dl.decoded.output = dl.prior \o dl.array.values

\* C22: Delta.compress_ratio returns 0 when the integer type is 128 bits or
\* 256 bits wide, whatever the statistics.
C22_WideTypesRefused ==
    (dl.pc # "start" /\ dl.T \in {"i128", "i256"}) => dl.ratio = "0.0"

\* C29: on an array of a fixed-width type for which compress_ratio selects
\* Delta, no difference of compress and no sum of decompress overflows T.
C29_DeltaNoOverflow ==
    (dl.T \in {"u8", "i8"} /\ dl.ratio = "f64::MAX") =>
        /\ dl.pc = "panicked" => dl.compressed.why # "panic:overflow"
        /\ dl.pc \in {"compressed", "decompressed"} => ~dl.compressed.overflow
        /\ dl.pc = "decompressed" => (dl.decoded.ok /\ ~dl.decoded.overflow)

(***************************************************************************)
(* read_validity_nested (read/read_basic.rs)                               *)
(***************************************************************************)
\* Vec<InitNested> of a two-level column: a list or a struct over a primitive
NestedInits ==
    { <<[kind |-> k, nullable |-> a], [kind |-> "Primitive", nullable |-> b]>> :
        k \in {"List", "Struct"}, a \in BOOLEAN, b \in BOOLEAN }

\* init_nested: the empty state of every level
init_nested(init) ==
    [d \in 1..Len(init) |->
       [kind |-> init[d].kind, nullable |-> init[d].nullable,
        length |-> 0, offsets |-> <<>>, validity |-> <<>>]]

is_nullable(nest) == nest.nullable
is_repeated(nest) == nest.kind = "List"
\* Only the nullable struct level is required
is_required(nest) == nest.kind = "Struct" /\ nest.nullable

\* Nested::len
nest_len(nest) == nest.length

\* Nested::push: a list keeps the offset, a nullable list or struct the
\* validity bit, every level counts the entry
nest_push(nest, length, is_valid) ==
    [nest EXCEPT !.length = @ + 1,
                 !.offsets = IF nest.kind = "List" THEN Append(@, length) ELSE @,
                 !.validity = IF nest.nullable /\ nest.kind # "Primitive"
                              THEN Append(@, is_valid) ELSE @]

Bit(b) == IF b THEN 1 ELSE 0

\* cum_sum[depth] and cum_rep[depth] for depth from 0
RECURSIVE cum_sum(_, _)
cum_sum(init, depth) ==
    IF depth = 0 THEN 0
    ELSE cum_sum(init, depth - 1)
         + Bit(is_nullable(init[depth])) + Bit(is_repeated(init[depth]))

RECURSIVE cum_rep(_, _)
cum_rep(init, depth) ==
    IF depth = 0 THEN 0 ELSE cum_rep(init, depth - 1) + Bit(is_repeated(init[depth]))

\* The body of the for loop over the depths, from depth (0-based) on, for
\* one (rep, def) pair
RECURSIVE extend_depths(_, _, _, _, _)
extend_depths(s, init, pair, depth, is_req) ==
    LET max_depth == Len(init)
        right_level == pair.rep <= cum_rep(init, depth) /\ pair.def >= cum_sum(init, depth)
    IN  IF depth >= max_depth THEN s
        ELSE IF ~(is_req \/ right_level) THEN extend_depths(s, init, pair, depth + 1, FALSE)
        ELSE LET length == IF depth + 2 <= max_depth THEN nest_len(s.nested[depth + 2]) ELSE 1
                 nest == s.nested[depth + 1]
                 is_valid == is_nullable(nest) /\ pair.def > cum_sum(init, depth)
                 leaf == depth = max_depth - 1
                 leaf_valid == pair.def # cum_sum(init, depth) \/ ~is_nullable(nest)
                 s1 == [s EXCEPT
                          !.nested[depth + 1] = nest_push(nest, length, is_valid),
                          !.is_nullable = IF leaf THEN is_nullable(nest) ELSE @,
                          !.builder = IF leaf /\ is_nullable(nest)
                                      THEN Append(@, right_level /\ leaf_valid) ELSE @]
             IN  extend_depths(s1, init, pair, depth + 1, is_required(nest) /\ ~is_valid)

\* The test that ends the while loop: next_rep is 0 when no pair is left
LoopBreaks_RowsOnly(next_rep, rows, additional) == rows = additional

LoopBreaks(next_rep, rows, additional) == next_rep = 0 /\ rows = additional

\* Level streams: pairs of a page, the first one starting a row
LevelStreams(init) ==
    UNION { { p \in [1..n -> [rep : 0..cum_rep(init, Len(init)),
                              def : 0..cum_sum(init, Len(init))]] :
                n > 0 => p[1].rep = 0 } : n \in 0..MaxPairs }

\* The rows of a level stream
RowsIn(pairs) == Cardinality({i \in 1..Len(pairs) : pairs[i].rep = 0})

NvInit(init, pairs, additional) ==
    [ pc |-> "loop", init |-> init, pairs |-> pairs, additional |-> additional,
      consumed |-> 0, rows |-> 0, nested |-> init_nested(init),
      is_nullable |-> FALSE, builder |-> <<>> ]

\* One turn of the while loop: page_iter.next(), the depths, the peek
NestedLoopTurn ==
    /\ nv.pc = "loop"
    /\ nv.consumed < Len(nv.pairs)
    /\ LET pair == nv.pairs[nv.consumed + 1]
           rows == nv.rows + Bit(pair.rep = 0)
           s    == extend_depths(nv, nv.init, pair, 0, FALSE)
           next_rep == IF nv.consumed + 2 <= Len(nv.pairs)
                       THEN nv.pairs[nv.consumed + 2].rep ELSE 0
       IN  nv' = [s EXCEPT !.consumed = @ + 1,
                           !.rows = rows,
                           !.pc = IF LoopBreaks(next_rep, rows, nv.additional)
                                  THEN "done" ELSE "loop"]
    /\ UNCHANGED <<opts, chunk, writer, rd, bin, dec, nr, sel, tg, cm, vl, duo, bp, de, bd, dl, st, fx>>

\* page_iter.next() is None: the loop ends
NestedStreamEnd ==
    /\ nv.pc = "loop"
    /\ nv.consumed = Len(nv.pairs)
    /\ nv' = [nv EXCEPT !.pc = "done"]
    /\ UNCHANGED <<opts, chunk, writer, rd, bin, dec, nr, sel, tg, cm, vl, duo, bp, de, bd, dl, st, fx>>

InitNestedRead ==
    /\ \E init \in NestedInits :
         \E pairs \in LevelStreams(init) :
           \E additional \in 0..RowsIn(pairs) : nv = NvInit(init, pairs, additional)
    /\ opts = Unused /\ chunk = Unused /\ writer = Unused /\ rd = Unused
    /\ bin = Unused /\ dec = Unused /\ nr = Unused /\ sel = Unused
    /\ tg = Unused /\ cm = Unused /\ vl = Unused /\ duo = Unused
    /\ bp = Unused /\ de = Unused /\ bd = Unused
    /\ dl = Unused /\ st = Unused /\ fx = Unused

NextNestedRead == NestedLoopTurn \/ NestedStreamEnd

SpecNestedRead == InitNestedRead /\ [][NextNestedRead]_vars

\* What the statement asks of a finished read: exactly `additional` rows
\* seen, the next pair (if any) starts a row, the outermost level holds
\* `additional` entries
ReadExactly ==
    /\ nv.rows = nv.additional
    /\ RowsIn(SubSeq(nv.pairs, 1, nv.consumed)) = nv.additional
    /\ nv.consumed < Len(nv.pairs) => nv.pairs[nv.consumed + 1].rep = 0
    /\ nest_len(nv.nested[1]) = nv.additional

RECURSIVE skip_pages(_, _)
skip_pages(r, n) == IF n = 0 THEN r ELSE skip_pages(skip_page(r), n - 1)

\* A step of nth(n) that met no I/O error, against n calls of skip_page
\* then next() from the same reader
NthAsSkipsThenNext ==
    LET n    == nr'.last.n
        then == reader_next(skip_pages(nr.r, n))
        k    == nr.r.current_page + n
    IN  /\ \A o \in then :
             /\ o.item = nr'.last.item
             /\ o.r.current_page = nr'.r.current_page
        /\ IF k < Len(nr.r.page_metas)
           THEN /\ nr'.last.item = ItemOk(nr.r.page_metas[k + 1].num_values,
                                          Bytes(nr.r.stream, PageBegin(k + 1),
                                                nr.r.page_metas[k + 1].length))
                /\ nr'.r.current_page = k + 1
           ELSE /\ nr'.last.item = ItemNone
                /\ nr'.r.current_page = Len(nr.r.page_metas)

\* C26: without I/O error, nth(n) returns the same result and leaves the
\* same current_page as n calls of skip_page() followed by one next(): page
\* current_page + n when it exists, else None with current_page at the page
\* count.
C26_NthIsSkipsThenNext ==
    [][(nr'.calls = nr.calls + 1 /\ nr'.last.op = "nth" /\ ~nr'.io_error)
         => NthAsSkipsThenNext]_vars

\* nth(n) with n >= 1 returned a page after stepping over pages with bytes
C26_Witness ==
    /\ nr.last.op = "nth" /\ nr.last.n >= 1
    /\ nr.last.item.kind = "Ok"
    /\ nr.last.after > nr.last.before + Len(nr.last.item.buffer)
    /\ ~nr.io_error

\* C27: after any calls of next(), nth(n) and skip_page() without error,
\* 0 <= current_page <= page count and the stream is at the first byte of
\* page current_page: its position from where the reader was opened is the
\* sum of the lengths of the pages before current_page.
C27_SitsOnCurrentPage ==
    ~nr.io_error =>
        /\ 0 <= nr.r.current_page /\ nr.r.current_page <= Len(nr.r.page_metas)
        /\ nr.r.pos = PageBegin(nr.r.current_page + 1)

(***************************************************************************)
(* encode_chunk on a chunk without rows                                    *)
(***************************************************************************)
\* C28: for a chunk with zero rows, encode_chunk returns Ok without writing
\* any page and records for every leaf a ColumnMeta with an empty page list
\* at the current writer offset.
C28_ZeroRowChunk ==
    (ChunkLen(chunk) = 0 /\ writer.pc # "start") =>
        /\ writer.pc = "done" /\ writer.result = "Ok"
        /\ writer.writes = 0
        /\ Len(writer.metas) = Len(chunk)
        /\ \A i \in 1..Len(writer.metas) :
             writer.metas[i] = ColumnMetaOf(writer.offset, <<>>)

(***************************************************************************)
(* decompress_binary, raw mode: the page's offsets appended to the         *)
(* caller's and fixed up (compression/binary/mod.rs)                       *)
(***************************************************************************)
\* The offsets of consecutive values of the given sizes, from 0
OffsetsFrom0(sizes) == [j \in 1..(Len(sizes) + 1) |-> SumSeq(SubSeq(sizes, 1, j - 1))]

\* The caller's offsets buffer: empty, or the offsets of earlier values
FxPriors == {<<>>} \cup { OffsetsFrom0(s) : s \in UNION { [1..n -> 0..MaxItem] : n \in 0..1 } }

\* The offsets stored in a page of up to MaxRows values
FxPages == { OffsetsFrom0(s) : s \in UNION { [1..n -> 0..MaxItem] : n \in 0..MaxRows } }

FxInit(prior, page) ==
    [ pc       |-> "decompress",
      prior    |-> prior,           \* the buffer when decompress_binary is entered
      page     |-> page,            \* the length + 1 offsets of the page
      length   |-> Len(page) - 1,
      offsets  |-> prior,           \* the buffer up to its current length
      i        |-> 0,               \* the loop variable (index from 0)
      touched  |-> {},              \* indices read or written by the fix-up
      beyond   |-> FALSE ]          \* an index >= offsets.len() was touched

\* c.decompress into the spare capacity, set_len(len + length + 1), and the
\* entry of the fix-up when the buffer was not empty
FxAppendPage ==
    /\ fx.pc = "decompress"
    /\ LET offsets == fx.prior \o fx.page
       IN  fx' = [fx EXCEPT !.offsets = offsets,
                            !.i = Len(offsets) - fx.length - 1,
                            !.pc = IF fx.prior = <<>> THEN "done" ELSE "fix"]
    /\ UNCHANGED <<opts, chunk, writer, rd, bin, dec, nr, sel, tg, cm, vl, duo, bp, de, bd, dl, st, nv>>

\* What *offsets.get_unchecked(k) yields (k from 0): the element, or for
\* k >= len whatever the memory after the elements holds
get_unchecked(offsets, k) ==
    IF k < Len(offsets) THEN {offsets[k + 1]} ELSE 0..MaxItem

\* One turn of `for i in offsets.len() - length - 1..offsets.len()`
FxFixTurn ==
    /\ fx.pc = "fix"
    /\ fx.i < Len(fx.offsets)
    /\ \E next_val \in get_unchecked(fx.offsets, fx.i + 1) :
         fx' = [fx EXCEPT !.offsets[fx.i + 1] = Last(fx.prior) + next_val,
                          !.i = @ + 1,
                          !.touched = @ \cup {fx.i, fx.i + 1},
                          !.beyond = @ \/ fx.i + 1 >= Len(fx.offsets)]
    /\ UNCHANGED <<opts, chunk, writer, rd, bin, dec, nr, sel, tg, cm, vl, duo, bp, de, bd, dl, st, nv>>

\* After the loop: set_len(offsets.len() - 1)
FxSetLen ==
    /\ fx.pc = "fix"
    /\ fx.i = Len(fx.offsets)
    /\ fx' = [fx EXCEPT !.offsets = SubSeq(@, 1, Len(@) - 1), !.pc = "done"]
    /\ UNCHANGED <<opts, chunk, writer, rd, bin, dec, nr, sel, tg, cm, vl, duo, bp, de, bd, dl, st, nv>>

InitFixup ==
    /\ \E prior \in FxPriors, page \in FxPages : fx = FxInit(prior, page)
    /\ opts = Unused /\ chunk = Unused /\ writer = Unused /\ rd = Unused
    /\ bin = Unused /\ dec = Unused /\ nr = Unused /\ sel = Unused
    /\ tg = Unused /\ cm = Unused /\ vl = Unused /\ duo = Unused
    /\ bp = Unused /\ de = Unused /\ bd = Unused
    /\ dl = Unused /\ st = Unused /\ nv = Unused

NextFixup == FxAppendPage \/ FxFixTurn \/ FxSetLen

SpecFixup == InitFixup /\ [][NextFixup]_vars

\* C30: in the fix-up after a raw-mode page is appended to a non-empty
\* offsets buffer, every index read or written is smaller than the buffer's
\* current length, and on return the buffer holds exactly the previous
\* length + value_count entries.
C30_FixupInBounds ==
    fx.prior # <<>> =>
        /\ ~fx.beyond
        /\ fx.pc = "done" => Len(fx.offsets) = Len(fx.prior) + fx.length

====
